---------------------------- MODULE Spec2Model ----------------------------
(***************************************************************************)
(* State-machine model of the usage accounting and quota logic of Lukas AI *)
(* (app/features/payments/queries.ts, three revisions in one file), of the *)
(* analytics track-usage action and of the work-tools and chat actions,    *)
(* and of the schedule and meeting APIs, the manager guard, the login      *)
(* action, the document actions and the meeting and work-tools screens.    *)
(*                                                                         *)
(* Time is counted in days from 1 January of a non-leap year; a timestamp  *)
(* is the day it falls on.  Tables are sequences of rows, a row's id being *)
(* its index (rows of the usage tables are never deleted by the code).     *)
(* A nullable value is a set with at most one element: {} is null.         *)
(***************************************************************************)
EXTENDS Integers, Sequences, FiniteSets, TLC

VARIABLES
    now,                \* wall clock: the current day
    rev,                \* deployed revision of payments/queries.ts: 1, 2 or 3
    usageTracking,      \* table usage_tracking (revisions 1 and 2)
    subscriptionUsage,  \* table subscription_usage (revision 3)
    userSubscriptions,  \* table user_subscriptions
    aiUsageTracking,    \* table ai_usage_tracking (analytics ledger)
    aiOptimizationSuggestions, \* table ai_optimization_suggestions, by row id
    aiPerformanceMetrics,      \* table ai_performance_metrics
    aiCostAnalysis,            \* table ai_cost_analysis
    inflight,           \* per request slot: a trackSubscriptionUsage call between its select and its write
    response,           \* what the most recent handler returned
    recorded,           \* history: usage handed to the recording functions, per user, feature and month
    calls,              \* history: number of recording calls made
    aiCalls,            \* history: requests sent to the AI provider, per user
    scheduleRev,        \* deployed revision of api/schedule.tsx: 3, 4 or 5
    calendarEvents,     \* table calendar_events, by row id
    automatedTasks,     \* table automated_tasks, by row id
    workflows,          \* table workflows, by row id
    timeTracking,       \* table time_tracking, by row id
    clock,              \* wall clock of the schedule API, in seconds
    companyDocuments,   \* table company_documents, by row id
    documentChunks,     \* table document_chunks
    profiles,           \* table profiles: the role of each user
    session,            \* the auth session the browser holds after login
    isRecording,        \* meeting screen: useState isRecording
    isPaused,           \* meeting screen: useState isPaused
    recordingTime,      \* meeting screen: useState recordingTime
    transcripts,        \* meeting screen: useState transcripts
    mediaRecorderRef,   \* meeting screen: useRef mediaRecorderRef
    timerRef,           \* meeting screen: useRef timerRef
    intervals,          \* meeting screen: the setInterval timers created so far, by timer id
    pendingStarts,      \* meeting screen: startRecording calls awaiting getUserMedia, with the state they closed over
    isLoading,          \* work-tools screen: useState isLoading
    results,            \* work-tools screen: useState results
    fetcher             \* work-tools screen: useFetcher state and data

vars == <<now, rev, usageTracking, subscriptionUsage, userSubscriptions,
          aiUsageTracking, aiOptimizationSuggestions, aiPerformanceMetrics,
          aiCostAnalysis, inflight, response, recorded, calls, aiCalls,
          scheduleRev, calendarEvents, automatedTasks, workflows, timeTracking,
          clock, companyDocuments, documentChunks, profiles, session,
          isRecording, isPaused, recordingTime, transcripts, mediaRecorderRef,
          timerRef, intervals, pendingStarts, isLoading, results, fetcher>>

\* the state of the schedule API, of the documents API, of sign-in, of the
\* meeting screen and of the work-tools screen
scheduleState == <<scheduleRev, calendarEvents, automatedTasks, workflows,
                   timeTracking, clock>>
documentState == <<companyDocuments, documentChunks>>
authState == <<profiles, session>>
meetingState == <<isRecording, isPaused, recordingTime, transcripts,
                  mediaRecorderRef, timerRef, intervals, pendingStarts>>
workToolsState == <<isLoading, results, fetcher>>
featureState == <<scheduleState, documentState, authState, meetingState, workToolsState>>

\* the analytics tables other than the usage ledger
analyticsTables == <<aiOptimizationSuggestions, aiPerformanceMetrics, aiCostAnalysis>>

----------------------------------------------------------------------------
(* Bounds of the model *)

MaxDay == 31        \* last day the clock reaches (1 February)
MaxCalls == 3       \* recording calls per behaviour
MaxEvents == 1      \* rows of ai_usage_tracking
MaxAICalls == 1     \* requests sent to the AI provider per behaviour
MaxRecordings == 1  \* recording calls per behaviour beside the AI actions
MaxSuggestions == 2 \* row ids of ai_optimization_suggestions
MaxRows == 1        \* rows a schedule or document table comes to hold
MaxClock == 120     \* last second the schedule API's clock reaches
MaxIntervals == 4   \* setInterval timers the meeting screen creates per behaviour
MaxTime == 2        \* seconds the recording-time display counts up to
MaxChunks == 2      \* chunks one process_document request carries
MaxChunkRows == 6   \* rows of document_chunks

Users == {"u1", "u2"}
Features == {"document_analysis", "meeting_summary"}
Amounts == {1, 24, 25}
Procs == {"p1", "p2"}

Max(a, b) == IF a >= b THEN a ELSE b

----------------------------------------------------------------------------
(* Calendar: what new Date(year, month, day) computes *)

DaysInMonth == <<31, 28, 31, 30, 31, 30, 31, 31, 30, 31, 30, 31>>

RECURSIVE MonthStart(_)
\* new Date(y, m, 1): the first day of month m (0-based; m = 12 is next January)
MonthStart(m) == IF m = 0 THEN 0 ELSE MonthStart(m - 1) + DaysInMonth[m]

\* Date.getMonth() of a day
MonthOf(d) == CHOOSE m \in 0..(Len(DaysInMonth) - 1) :
                  MonthStart(m) <= d /\ d < MonthStart(m + 1)

\* new Date(now.getFullYear(), now.getMonth(), 1)
PeriodStart(d) == MonthStart(MonthOf(d))

\* new Date(now.getFullYear(), now.getMonth() + 1, 0): day 0 of the next
\* month, which Date normalises to the last day of this month, at 00:00
PeriodEnd(d) == MonthStart(MonthOf(d) + 1) - 1

FirstDay == PeriodEnd(0) - 1
Days == FirstDay..MaxDay
Months == MonthOf(FirstDay)..MonthOf(MaxDay)


----------------------------------------------------------------------------
(* Quota policy *)

BasicDocumentLimit == 50
BasicOtherLimit == 25
ResetDays == 30

\* feature === 'document_analysis' ? 50 : 25   (Basic plan limits)
BasicLimit(f) == IF f = "document_analysis" THEN BasicDocumentLimit ELSE BasicOtherLimit

\* table subscription_plans: the two plans schema.ts names ('basic' | 'pro').
\* features maps a feature to its limit; {} is the null limit checkUserLimits
\* treats as unlimited. Basic carries the limits the queries fall back to,
\* Pro carries none.
subscriptionPlans ==
    { [id |-> "basic", name |-> "basic", features |-> [f \in Features |-> {BasicLimit(f)}]],
      [id |-> "pro",   name |-> "pro",   features |-> [f \in Features |-> {}]] }

\* the limit of the plan the user's subscription row names; {} is unlimited
PlanLimit(u, f) ==
    LET subs == {i \in 1..Len(userSubscriptions) : userSubscriptions[i].user_id = u}
    IN  IF subs = {} THEN {BasicLimit(f)}
        ELSE LET sub  == userSubscriptions[CHOOSE i \in subs : \A j \in subs : i <= j]
                 plan == {p \in subscriptionPlans : {p.id} = sub.plan_id}
             IN  IF plan = {} THEN {BasicLimit(f)}
                 ELSE (CHOOSE p \in plan : TRUE).features[f]

----------------------------------------------------------------------------
(* Revision 1 of queries.ts: usage_tracking, one counter row per period *)

\* .where(and(eq(user_id), eq(feature), gte(period_start, ps), lte(period_end, pe)))
UsageWhere(table, u, f, ps, pe) ==
    {i \in 1..Len(table) :
        /\ table[i].user_id = u
        /\ table[i].feature = f
        /\ table[i].period_start >= ps
        /\ table[i].period_end <= pe}

\* .limit(1) with no ORDER BY: any one of the matching rows, or no row.
\* A result is {} or {[id, usage_count]}: the row as it was when selected.
UsageSelect(table, u, f, ps, pe) ==
    LET hit == UsageWhere(table, u, f, ps, pe)
    IN  IF hit = {} THEN {{}}
        ELSE {{[id |-> i, usage_count |-> table[i].usage_count]} : i \in hit}

\* trackSubscriptionUsage writing the call's amount over the stored count
TrackWriteSettingCount(table, existing, u, f, usage, ps, pe) ==
    IF existing # {}
    THEN LET e == CHOOSE x \in existing : TRUE
         IN  [table EXCEPT ![e.id].usage_count = usage]
    ELSE Append(table, [user_id |-> u, feature |-> f, usage_count |-> usage,
                        period_start |-> ps, period_end |-> pe])

\* The second half of trackSubscriptionUsage: update by id, or insert
TrackWrite(table, existing, u, f, usage, ps, pe) ==
    IF existing # {}
    THEN LET e == CHOOSE x \in existing : TRUE
         IN  [table EXCEPT ![e.id].usage_count = e.usage_count + usage]
    ELSE Append(table, [user_id |-> u, feature |-> f, usage_count |-> usage,
                        period_start |-> ps, period_end |-> pe])

\* checkUsageLimits, after its select
CheckUsageLimitsResult(usage, f) ==
    IF usage = {} THEN [exceeded |-> FALSE, remaining |-> 0]
    ELSE LET currentUsage == CHOOSE x \in usage : TRUE
             limit == BasicLimit(f)
         IN  [exceeded  |-> currentUsage.usage_count >= limit,
              remaining |-> Max(0, limit - currentUsage.usage_count)]

----------------------------------------------------------------------------
(* Revision 2 of queries.ts: updateUserUsage, checkUserLimits *)

\* getUserUsage: the same query as revision 1's
getUserUsage(table, u, f, ps, pe) == UsageSelect(table, u, f, ps, pe)

\* updateUserUsage, after getUserUsage: set the count, or insert
UpdateWrite(table, existing, u, f, usageCount, ps, pe) ==
    IF existing # {}
    THEN LET e == CHOOSE x \in existing : TRUE
         IN  [table EXCEPT ![e.id].usage_count = usageCount]
    ELSE Append(table, [user_id |-> u, feature |-> f, usage_count |-> usageCount,
                        period_start |-> ps, period_end |-> pe])

\* getUserSubscription: .where(eq(user_id)).limit(1)
getUserSubscription(u) ==
    LET hit == {i \in 1..Len(userSubscriptions) : userSubscriptions[i].user_id = u}
    IN  IF hit = {} THEN {{}} ELSE {{userSubscriptions[i]} : i \in hit}

\* checkUserLimits' plan query: .where(eq(subscriptionPlans.id, plan_id || ""))
\* on the uuid column id. A null plan_id is compared as "": PostgreSQL
\* rejects "" as a uuid, so the statement fails; a driver that lets the
\* comparison through finds no row. Both outcomes are kept.
PlanSelect(planId) ==
    IF planId = {}
    THEN {[ok |-> FALSE, rows |-> {}], [ok |-> TRUE, rows |-> {}]}
    ELSE {[ok |-> TRUE, rows |-> {p \in subscriptionPlans : {p.id} = planId}]}

\* checkUserLimits, given the subscription row and the usage row it selected
CheckUserLimitsResult(userSub, usage, f) ==
    IF userSub = {}
    THEN [hasLimit |-> TRUE, limit |-> {BasicLimit(f)}, currentUsage |-> {}, remaining |-> {}]
    ELSE LET sub  == CHOOSE x \in userSub : TRUE
             plan == {p \in subscriptionPlans : {p.id} = sub.plan_id}
         IN  IF plan = {}
             THEN [hasLimit |-> TRUE, limit |-> {BasicLimit(f)},
                   currentUsage |-> {}, remaining |-> {}]
             ELSE LET limit == (CHOOSE p \in plan : TRUE).features[f]
                  IN  IF limit = {}
                      THEN [hasLimit |-> FALSE, limit |-> {},
                            currentUsage |-> {}, remaining |-> {}]
                      ELSE LET l == CHOOSE x \in limit : TRUE
                               currentUsage ==
                                   IF usage # {} THEN (CHOOSE x \in usage : TRUE).usage_count
                                   ELSE 0
                           IN  [hasLimit |-> TRUE, limit |-> {l},
                                currentUsage |-> {currentUsage},
                                remaining |-> {l - currentUsage}]

----------------------------------------------------------------------------
(* Revision 3 of queries.ts: subscription_usage, one counter row per feature *)

\* .where(and(eq(userId), eq(feature))).limit(1)
SubUsageSelect(table, u, f) ==
    LET hit == {i \in 1..Len(table) : table[i].userId = u /\ table[i].feature = f}
    IN  IF hit = {} THEN {{}}
        ELSE {{[id |-> i, usage |-> table[i].usage, limit |-> table[i].limit]} : i \in hit}

SubTrackWrite(table, existing, u, f, usage, limit, today) ==
    IF existing # {}
    THEN LET e == CHOOSE x \in existing : TRUE
         IN  [table EXCEPT ![e.id].usage = e.usage + usage, ![e.id].limit = limit]
    ELSE Append(table, [userId |-> u, feature |-> f, usage |-> usage, limit |-> limit,
                        period |-> "monthly", resetDate |-> today + ResetDays])

SubCheckResult(usage) ==
    IF usage = {} THEN [exceeded |-> FALSE, remaining |-> 0]
    ELSE LET currentUsage == CHOOSE x \in usage : TRUE
         IN  [exceeded  |-> currentUsage.usage >= currentUsage.limit,
              remaining |-> Max(0, currentUsage.limit - currentUsage.usage)]

----------------------------------------------------------------------------
(* State *)

Idle == [pc |-> "idle"]

\* row ids of ai_optimization_suggestions (uuid, defaultRandom: never reused)
SuggestionIds == 1..MaxSuggestions
\* an id no row has had yet, and an id whose row was deleted
Unused == [state |-> "unused"]
Deleted == [state |-> "deleted"]
NoResponse == [kind |-> "none"]
UsageCounts == {1, BasicOtherLimit, BasicDocumentLimit + 1}
\* the limit a caller of revision 3 passes for a feature
Limits(f) == {BasicLimit(f)}
Keys == Users \X Features \X Months

\* the tools of the work-tools action and screen
Tools == {"document_analysis", "email_composition", "meeting_notes", "code_review"}

\* row ids of the schedule and document tables (uuid, never reused)
RowIds == 1..MaxRows

\* the schedule, documents, sign-in and screen state before any request
InitScheduleState ==
    /\ scheduleRev = 3
    /\ calendarEvents = [id \in RowIds |-> Unused]
    /\ automatedTasks = [id \in RowIds |-> Unused]
    /\ workflows = [id \in RowIds |-> Unused]
    /\ timeTracking = [id \in RowIds |-> Unused]
    /\ clock = 0

InitDocumentState ==
    /\ companyDocuments = [id \in RowIds |-> Unused]
    /\ documentChunks = <<>>

InitAuthState ==
    /\ profiles = [u \in Users |-> {}]
    /\ session = {}

InitMeetingState ==
    /\ isRecording = FALSE
    /\ isPaused = FALSE
    /\ recordingTime = 0
    /\ transcripts = <<>>
    /\ mediaRecorderRef = {}
    /\ timerRef = {}
    /\ intervals = <<>>
    /\ pendingStarts = <<>>

InitWorkToolsState ==
    /\ isLoading = [t \in Tools |-> FALSE]
    /\ results = [t \in Tools |-> {}]
    /\ fetcher = [state |-> "idle", data |-> {}, tool |-> {}]

InitFeatures ==
    /\ InitScheduleState
    /\ InitDocumentState
    /\ InitAuthState
    /\ InitMeetingState
    /\ InitWorkToolsState

\* the usage, subscription and analytics state before any request, with
\* revision 1 of queries.ts deployed
InitQuotaState ==
    /\ now = FirstDay
    /\ rev = 1
    /\ usageTracking = <<>>
    /\ subscriptionUsage = <<>>
    /\ userSubscriptions =
           << [user_id |-> "u1", plan_id |-> {"basic"}, status |-> "active"],
              [user_id |-> "u2", plan_id |-> {"pro"},   status |-> "active"] >>
    /\ aiUsageTracking = <<>>
    /\ aiOptimizationSuggestions = [id \in SuggestionIds |-> Unused]
    /\ aiPerformanceMetrics = <<>>
    /\ aiCostAnalysis = <<>>
    /\ inflight = [p \in Procs |-> Idle]
    /\ response = NoResponse
    /\ recorded = [k \in Keys |-> 0]
    /\ calls = 0
    /\ aiCalls = [u \in Users |-> 0]

\* the usage, subscription and analytics variables other than response
quotaState == <<now, rev, usageTracking, subscriptionUsage, userSubscriptions,
                aiUsageTracking, analyticsTables, inflight, recorded, calls, aiCalls>>

Init ==
    /\ now = FirstDay
    /\ rev \in {1, 2, 3}
    /\ usageTracking = <<>>
    /\ subscriptionUsage = <<>>
    /\ userSubscriptions =
           << [user_id |-> "u1", plan_id |-> {"basic"}, status |-> "active"],
              [user_id |-> "u2", plan_id |-> {"pro"},   status |-> "active"] >>
    /\ aiUsageTracking = <<>>
    /\ aiOptimizationSuggestions = [id \in SuggestionIds |-> Unused]
    /\ aiPerformanceMetrics = <<>>
    /\ aiCostAnalysis = <<>>
    /\ inflight = [p \in Procs |-> Idle]
    /\ response = NoResponse
    /\ recorded = [k \in Keys |-> 0]
    /\ calls = 0
    /\ aiCalls = [u \in Users |-> 0]
    /\ InitFeatures

\* variables the quota functions do not touch
quotaFrame == <<rev, userSubscriptions, aiUsageTracking, analyticsTables, aiCalls,
                featureState>>

\* the clock moves on by a day
Tick ==
    /\ now < MaxDay
    /\ now' = now + 1
    /\ UNCHANGED <<rev, usageTracking, subscriptionUsage, userSubscriptions,
                   aiUsageTracking, analyticsTables, inflight, response, recorded,
                   calls, aiCalls, featureState>>

----------------------------------------------------------------------------
(* Handlers run one at a time: each is one step *)

trackSubscriptionUsage(u, f, usage) ==
    /\ rev = 1
    /\ calls < MaxCalls
    /\ LET periodStart == PeriodStart(now)
           periodEnd   == PeriodEnd(now)
       IN  \E existingUsage \in UsageSelect(usageTracking, u, f, periodStart, periodEnd) :
               /\ usageTracking' = TrackWrite(usageTracking, existingUsage, u, f, usage,
                                              periodStart, periodEnd)
               /\ response' = [kind |-> "tracked", user |-> u, feature |-> f,
                               count |-> IF existingUsage = {} THEN usage
                                         ELSE (CHOOSE x \in existingUsage : TRUE).usage_count + usage]
    /\ recorded' = [recorded EXCEPT ![<<u, f, MonthOf(now)>>] = @ + usage]
    /\ calls' = calls + 1
    /\ UNCHANGED <<now, subscriptionUsage, inflight>>
    /\ UNCHANGED quotaFrame

checkUsageLimits(u, f) ==
    /\ rev = 1
    /\ \E usage \in UsageSelect(usageTracking, u, f, PeriodStart(now), PeriodEnd(now)) :
           response' = [kind |-> "checkUsageLimits", user |-> u, feature |-> f,
                        result |-> CheckUsageLimitsResult(usage, f),
                        counted |-> IF usage = {} THEN 0
                                    ELSE (CHOOSE x \in usage : TRUE).usage_count,
                        n |-> recorded[<<u, f, MonthOf(now)>>]]
    /\ UNCHANGED <<now, usageTracking, subscriptionUsage, inflight, recorded, calls>>
    /\ UNCHANGED quotaFrame

updateUserUsage(u, f, usageCount) ==
    /\ rev = 2
    /\ calls < MaxCalls
    /\ LET periodStart == PeriodStart(now)
           periodEnd   == PeriodEnd(now)
       IN  \E existingUsage \in getUserUsage(usageTracking, u, f, periodStart, periodEnd) :
               usageTracking' = UpdateWrite(usageTracking, existingUsage, u, f, usageCount,
                                            periodStart, periodEnd)
    /\ response' = [kind |-> "updated", user |-> u, feature |-> f]
    /\ recorded' = [recorded EXCEPT ![<<u, f, MonthOf(now)>>] = usageCount]
    /\ calls' = calls + 1
    /\ UNCHANGED <<now, subscriptionUsage, inflight>>
    /\ UNCHANGED quotaFrame

checkUserLimits(u, f) ==
    /\ rev = 2
    /\ \E userSub \in getUserSubscription(u) :
       \E plan \in (IF userSub = {} THEN {[ok |-> TRUE, rows |-> {}]}
                    ELSE PlanSelect((CHOOSE x \in userSub : TRUE).plan_id)) :
       \E usage \in getUserUsage(usageTracking, u, f, PeriodStart(now), PeriodEnd(now)) :
           response' = IF plan.ok
                       THEN [kind |-> "checkUserLimits", user |-> u, feature |-> f,
                             result |-> CheckUserLimitsResult(userSub, usage, f),
                             n |-> recorded[<<u, f, MonthOf(now)>>]]
                       ELSE [kind |-> "rejected", from |-> "checkUserLimits",
                             user |-> u, feature |-> f]
    /\ UNCHANGED <<now, usageTracking, subscriptionUsage, inflight, recorded, calls>>
    /\ UNCHANGED quotaFrame

trackSubscriptionUsage3(u, f, usage, limit) ==
    /\ rev = 3
    /\ calls < MaxCalls
    /\ \E existingUsage \in SubUsageSelect(subscriptionUsage, u, f) :
           /\ subscriptionUsage' = SubTrackWrite(subscriptionUsage, existingUsage, u, f,
                                                 usage, limit, now)
           /\ response' = [kind |-> "tracked", user |-> u, feature |-> f,
                           count |-> IF existingUsage = {} THEN usage
                                     ELSE (CHOOSE x \in existingUsage : TRUE).usage + usage]
    /\ recorded' = [recorded EXCEPT ![<<u, f, MonthOf(now)>>] = @ + usage]
    /\ calls' = calls + 1
    /\ UNCHANGED <<now, usageTracking, inflight>>
    /\ UNCHANGED quotaFrame

checkUsageLimits3(u, f) ==
    /\ rev = 3
    /\ \E usage \in SubUsageSelect(subscriptionUsage, u, f) :
           response' = [kind |-> "checkUsageLimits3", user |-> u, feature |-> f,
                        result |-> SubCheckResult(usage),
                        counted |-> IF usage = {} THEN 0
                                    ELSE (CHOOSE x \in usage : TRUE).usage,
                        n |-> recorded[<<u, f, MonthOf(now)>>]]
    /\ UNCHANGED <<now, usageTracking, subscriptionUsage, inflight, recorded, calls>>
    /\ UNCHANGED quotaFrame

----------------------------------------------------------------------------
(* Analytics API: the track-usage action *)

FeatureEnum == {"chat", "document_qa", "meeting_summary", "workflow"}

\* submitted form fields; {} is a field the form does not carry
Forms == [feature      : {{"chat"}, {"bogus"}},
          model        : {{"gpt-4"}},
          tokensUsed   : {{}, {3}, {5}},
          inputTokens  : {{1}},
          outputTokens : {{2}},
          success      : {{}, {"true"}},
          errorMessage : {{}, {""}}]

Callers == {{}} \cup {{u} : u \in Users}

\* formData.get(k) ? Number(formData.get(k)) : 0
NumberOrZero(field) == IF field = {} THEN 0 ELSE CHOOSE x \in field : TRUE

\* the object handed to usageTrackingSchema.parse (formData.get gives null
\* for a missing field)
UsageTrackingInput(form) ==
    [feature      |-> form.feature,
     model        |-> form.model,
     tokensUsed   |-> NumberOrZero(form.tokensUsed),
     inputTokens  |-> NumberOrZero(form.inputTokens),
     outputTokens |-> NumberOrZero(form.outputTokens),
     success      |-> form.success = {"true"},
     errorMessage |-> form.errorMessage]

\* usageTrackingSchema.parse does not throw: z.enum and z.string reject null,
\* and so does z.string().optional(), which admits undefined only
UsageTrackingValid(d) ==
    /\ d.feature # {} /\ d.feature \subseteq FeatureEnum
    /\ d.model # {}
    /\ d.tokensUsed >= 1
    /\ d.inputTokens >= 0
    /\ d.outputTokens >= 0
    /\ d.errorMessage # {}

\* db.insert(aiUsageTracking).values({userId, ...data}).returning()
InsertUsage(table, u, d, today) ==
    Append(table, [userId |-> u, feature |-> CHOOSE x \in d.feature : TRUE,
                   tokensUsed |-> d.tokensUsed, inputTokens |-> d.inputTokens,
                   outputTokens |-> d.outputTokens, success |-> d.success,
                   createdAt |-> today])

\* action, case "track-usage"
trackUsageAction(caller, form) ==
    /\ IF caller = {}
       THEN /\ response' = [kind |-> "thrown", status |-> 401]
            /\ UNCHANGED <<aiUsageTracking, calls>>
       ELSE LET user == CHOOSE u \in caller : TRUE
                data == UsageTrackingInput(form)
            IN  IF UsageTrackingValid(data)
                THEN /\ calls < MaxCalls
                     /\ Len(aiUsageTracking) < MaxEvents
                     /\ aiUsageTracking' = InsertUsage(aiUsageTracking, user, data, now)
                     /\ calls' = calls + 1
                     /\ response' = [kind |-> "json", status |-> 200, user |-> user,
                                     form |-> form, usage |-> Len(aiUsageTracking) + 1]
                ELSE /\ response' = [kind |-> "json", status |-> 400, user |-> user,
                                     form |-> form]
                     /\ UNCHANGED <<aiUsageTracking, calls>>
    /\ UNCHANGED <<featureState, now, rev, usageTracking, subscriptionUsage, userSubscriptions,
                   analyticsTables, inflight, recorded, aiCalls>>

Next ==
    \/ Tick
    \/ \E u \in Users, f \in Features, a \in Amounts : trackSubscriptionUsage(u, f, a)
    \/ \E u \in Users, f \in Features : checkUsageLimits(u, f)
    \/ \E u \in Users, f \in Features, c \in UsageCounts : updateUserUsage(u, f, c)
    \/ \E u \in Users, f \in Features : checkUserLimits(u, f)
    \/ \E u \in Users, f \in Features, a \in Amounts :
           \E l \in Limits(f) : trackSubscriptionUsage3(u, f, a, l)
    \/ \E u \in Users, f \in Features : checkUsageLimits3(u, f)

Spec == Init /\ [][Next]_vars

----------------------------------------------------------------------------
(* The usage_tracking revision alone, its calls one after another *)

InitUsageTracking == Init /\ rev = 1

NextUsageTracking ==
    \/ Tick
    \/ \E u \in Users, f \in Features, a \in Amounts : trackSubscriptionUsage(u, f, a)
    \/ \E u \in Users, f \in Features : checkUsageLimits(u, f)

SpecUsageTracking == InitUsageTracking /\ [][NextUsageTracking]_vars

----------------------------------------------------------------------------
(* checkUserLimits over the subscriptions a user can have: none, one whose  *)
(* plan_id is null, one on a plan                                           *)

SubscriptionRows(u) ==
    {<<>>} \cup {<<[user_id |-> u, plan_id |-> pid, status |-> "active"]>> :
                    pid \in {{}, {"basic"}, {"pro"}}}

InitLimits ==
    /\ now = FirstDay
    /\ rev = 2
    /\ usageTracking = <<>>
    /\ subscriptionUsage = <<>>
    /\ \E r1 \in SubscriptionRows("u1"), r2 \in SubscriptionRows("u2") :
           userSubscriptions = r1 \o r2
    /\ aiUsageTracking = <<>>
    /\ aiOptimizationSuggestions = [id \in SuggestionIds |-> Unused]
    /\ aiPerformanceMetrics = <<>>
    /\ aiCostAnalysis = <<>>
    /\ inflight = [p \in Procs |-> Idle]
    /\ response = NoResponse
    /\ recorded = [k \in Keys |-> 0]
    /\ calls = 0
    /\ aiCalls = [u \in Users |-> 0]
    /\ InitFeatures

NextLimits ==
    \/ \E u \in Users, f \in Features, c \in UsageCounts :
           calls < MaxRecordings /\ updateUserUsage(u, f, c)
    \/ \E u \in Users, f \in Features : checkUserLimits(u, f)

SpecLimits == InitLimits /\ [][NextLimits]_vars

----------------------------------------------------------------------------
(* The track-usage action alone, over forms with fields present or missing *)

TrackUsageForms == [feature      : {{}, {"chat"}, {"bogus"}},
                    model        : {{}, {"gpt-4"}},
                    tokensUsed   : {{}, {3}, {5}},
                    inputTokens  : {{}, {1}},
                    outputTokens : {{2}},
                    success      : {{}, {"true"}, {"false"}},
                    errorMessage : {{}, {""}}]

InitTrackUsage == Init /\ rev = 1

NextTrackUsage ==
    \E caller \in Callers, form \in TrackUsageForms : trackUsageAction(caller, form)

SpecTrackUsage == InitTrackUsage /\ [][NextTrackUsage]_vars

----------------------------------------------------------------------------
(* Analytics API: metrics, cost analyses and optimization suggestions *)

MetricEnum == {"accuracy", "response_time", "user_satisfaction"}
PeriodEnum == {"daily", "weekly", "monthly"}
CategoryEnum == {"cost", "performance", "usage"}

\* submitted fields that decide the parse; the other fields are sent and valid
MetricForms == [metric : {{"accuracy"}, {"bogus"}}, unit : {{}, {"ms"}}]
CostForms == [period : {{"daily"}, {"bogus"}}]
SuggestionForms == [category : {{"cost"}, {"bogus"}}, implementation : {{}, {"steps"}}]

\* performanceMetricSchema.parse does not throw (unit: formData.get gives
\* null for a missing field, which z.string().optional() rejects)
PerformanceMetricValid(form) ==
    /\ form.metric # {} /\ form.metric \subseteq MetricEnum
    /\ form.unit # {}

\* costAnalysisSchema.parse does not throw
CostAnalysisValid(form) == form.period # {} /\ form.period \subseteq PeriodEnum

\* optimizationSuggestionSchema.parse does not throw
OptimizationSuggestionValid(form) ==
    /\ form.category # {} /\ form.category \subseteq CategoryEnum
    /\ form.implementation # {}

\* db.insert(...).values({userId, ...data}) with date fields that are ISO
\* strings for timestamp columns: the row is stored, or the statement fails
\* and the catch answers 500
InsertOutcomes == {"stored", "failed"}

\* a response of the analytics action
Answer(action, status, id) ==
    [kind |-> "analytics", action |-> action, status |-> status, suggestionId |-> id]

\* ids a request can carry: those of rows, and 0 for one that names no row
SubmittedIds == 0..MaxSuggestions

\* .update(aiOptimizationSuggestions).set({isApplied, appliedDate}) that
\* inverts the flag of the row instead of setting it
ApplyUpdateInverting(table, id, today) ==
    [i \in SuggestionIds |->
        IF i = id /\ table[i].state = "stored"
        THEN [table[i] EXCEPT !.isApplied = ~@, !.appliedDate = {today}]
        ELSE table[i]]

\* the same update without its where clause
ApplyUpdateEveryRow(table, id, today) ==
    [i \in SuggestionIds |->
        IF table[i].state = "stored"
        THEN [table[i] EXCEPT !.isApplied = TRUE, !.appliedDate = {today}]
        ELSE table[i]]

\* .update(aiOptimizationSuggestions).set({isApplied: true, appliedDate: new
\* Date()}).where(eq(id, suggestionId))
ApplyUpdate(table, id, today) ==
    [i \in SuggestionIds |->
        IF i = id /\ table[i].state = "stored"
        THEN [table[i] EXCEPT !.isApplied = TRUE, !.appliedDate = {today}]
        ELSE table[i]]

\* .delete(aiOptimizationSuggestions).where(eq(id, suggestionId))
DeleteRow(table, id) ==
    [i \in SuggestionIds |->
        IF i = id /\ table[i].state = "stored" THEN Deleted ELSE table[i]]

\* what every case of the action leaves alone
analyticsFrame == <<featureState, now, rev, usageTracking, subscriptionUsage, userSubscriptions,
                    aiUsageTracking, inflight, recorded, aiCalls>>

\* action, case "add-performance-metric"
addPerformanceMetric(caller, form, outcome) ==
    /\ IF caller = {}
       THEN /\ response' = [kind |-> "thrown", status |-> 401]
            /\ UNCHANGED <<aiPerformanceMetrics, calls>>
       ELSE IF ~PerformanceMetricValid(form)
       THEN /\ response' = Answer("add-performance-metric", 400, 0)
            /\ UNCHANGED <<aiPerformanceMetrics, calls>>
       ELSE IF outcome = "failed"
       THEN /\ response' = Answer("add-performance-metric", 500, 0)
            /\ UNCHANGED <<aiPerformanceMetrics, calls>>
       ELSE /\ calls < MaxRecordings
            /\ aiPerformanceMetrics' =
                   Append(aiPerformanceMetrics,
                          [userId |-> CHOOSE u \in caller : TRUE,
                           metric |-> CHOOSE x \in form.metric : TRUE])
            /\ calls' = calls + 1
            /\ response' = Answer("add-performance-metric", 200, 0)
    /\ UNCHANGED <<aiOptimizationSuggestions, aiCostAnalysis>>
    /\ UNCHANGED analyticsFrame

\* action, case "add-cost-analysis"
addCostAnalysis(caller, form, outcome) ==
    /\ IF caller = {}
       THEN /\ response' = [kind |-> "thrown", status |-> 401]
            /\ UNCHANGED <<aiCostAnalysis, calls>>
       ELSE IF ~CostAnalysisValid(form)
       THEN /\ response' = Answer("add-cost-analysis", 400, 0)
            /\ UNCHANGED <<aiCostAnalysis, calls>>
       ELSE IF outcome = "failed"
       THEN /\ response' = Answer("add-cost-analysis", 500, 0)
            /\ UNCHANGED <<aiCostAnalysis, calls>>
       ELSE /\ calls < MaxRecordings
            /\ aiCostAnalysis' =
                   Append(aiCostAnalysis,
                          [userId |-> CHOOSE u \in caller : TRUE,
                           period |-> CHOOSE x \in form.period : TRUE])
            /\ calls' = calls + 1
            /\ response' = Answer("add-cost-analysis", 200, 0)
    /\ UNCHANGED <<aiOptimizationSuggestions, aiPerformanceMetrics>>
    /\ UNCHANGED analyticsFrame

\* action, case "add-optimization-suggestion": the row gets a fresh id,
\* isApplied false (the column default) and no appliedDate
addOptimizationSuggestion(caller, form) ==
    /\ IF caller = {}
       THEN /\ response' = [kind |-> "thrown", status |-> 401]
            /\ UNCHANGED aiOptimizationSuggestions
       ELSE IF ~OptimizationSuggestionValid(form)
       THEN /\ response' = Answer("add-optimization-suggestion", 400, 0)
            /\ UNCHANGED aiOptimizationSuggestions
       ELSE /\ \E i \in SuggestionIds : aiOptimizationSuggestions[i] = Unused
            /\ LET id == CHOOSE i \in SuggestionIds :
                             /\ aiOptimizationSuggestions[i] = Unused
                             /\ \A j \in SuggestionIds :
                                    aiOptimizationSuggestions[j] = Unused => i <= j
               IN  /\ aiOptimizationSuggestions' =
                          [aiOptimizationSuggestions EXCEPT ![id] =
                              [state |-> "stored",
                               userId |-> CHOOSE u \in caller : TRUE,
                               category |-> CHOOSE x \in form.category : TRUE,
                               implementation |-> form.implementation,
                               isApplied |-> FALSE, appliedDate |-> {}]]
                   /\ response' = Answer("add-optimization-suggestion", 200, id)
    /\ UNCHANGED <<aiPerformanceMetrics, aiCostAnalysis, calls>>
    /\ UNCHANGED analyticsFrame

\* action, case "apply-optimization"
applyOptimization(caller, suggestionId) ==
    /\ IF caller = {}
       THEN /\ response' = [kind |-> "thrown", status |-> 401]
            /\ UNCHANGED aiOptimizationSuggestions
       ELSE /\ aiOptimizationSuggestions' =
                   ApplyUpdate(aiOptimizationSuggestions, suggestionId, now)
            /\ response' = Answer("apply-optimization", 200, suggestionId)
    /\ UNCHANGED <<aiPerformanceMetrics, aiCostAnalysis, calls>>
    /\ UNCHANGED analyticsFrame

\* action, case "delete-suggestion"
deleteSuggestion(caller, suggestionId) ==
    /\ IF caller = {}
       THEN /\ response' = [kind |-> "thrown", status |-> 401]
            /\ UNCHANGED aiOptimizationSuggestions
       ELSE /\ aiOptimizationSuggestions' = DeleteRow(aiOptimizationSuggestions, suggestionId)
            /\ response' = Answer("delete-suggestion", 200, suggestionId)
    /\ UNCHANGED <<aiPerformanceMetrics, aiCostAnalysis, calls>>
    /\ UNCHANGED analyticsFrame

\* action, default case
unknownAction(caller) ==
    /\ response' = IF caller = {} THEN [kind |-> "thrown", status |-> 401]
                   ELSE Answer("unknown", 400, 0)
    /\ UNCHANGED <<aiOptimizationSuggestions, aiPerformanceMetrics, aiCostAnalysis, calls>>
    /\ UNCHANGED analyticsFrame

\* a track-usage submission the schema accepts
AcceptedForms == {form \in Forms : form.tokensUsed = {3} /\ form.success = {"true"}
                                    /\ UsageTrackingValid(UsageTrackingInput(form))}

InitAnalytics == Init /\ rev = 1

NextAnalytics ==
    \/ \E caller \in Callers, form \in AcceptedForms :
           calls < MaxRecordings /\ trackUsageAction(caller, form)
    \/ \E caller \in Callers, form \in MetricForms, outcome \in InsertOutcomes :
           addPerformanceMetric(caller, form, outcome)
    \/ \E caller \in Callers, form \in CostForms, outcome \in InsertOutcomes :
           addCostAnalysis(caller, form, outcome)
    \/ \E caller \in Callers, form \in SuggestionForms :
           addOptimizationSuggestion(caller, form)
    \/ \E caller \in Callers, id \in SubmittedIds : applyOptimization(caller, id)
    \/ \E caller \in Callers, id \in SubmittedIds : deleteSuggestion(caller, id)
    \/ \E caller \in Callers : unknownAction(caller)

SpecAnalytics == InitAnalytics /\ [][NextAnalytics]_vars

----------------------------------------------------------------------------
(* Analytics API: the loader, and the screen that renders what it returns *)

\* new Date(year, month, 1) for a month counted from this January; a
\* negative month is one of the year before
MonthStartOf(m) == IF m >= 0 THEN MonthStart(m) ELSE MonthStart(m + 12) - MonthStart(12)

\* startDate.setMonth(m): the same day of the month in month m (Date carries
\* a day past the month's end over into the next month)
SetMonth(d, m) == MonthStartOf(m) + (d - MonthStart(MonthOf(d)))

\* the switch on the period parameter; {} is no parameter ("month")
LoaderPeriods == {{}, {"week"}, {"quarter"}}
StartDate(period, today) ==
    CASE period = {"week"}    -> today - 7
      [] period = {"quarter"} -> SetMonth(today, MonthOf(today) - 3)
      [] OTHER                -> SetMonth(today, MonthOf(today) - 1)

\* the feature parameter; {} is none (searchParams.get gives null)
LoaderFeatures == {{}, {"chat"}}

\* the rows the usage statistics query reads. The builder's where clause is
\* assigned by .where(): with a feature parameter the second call replaces
\* the user and date condition of the first.
StatsRows(table, user, startDate, feature) ==
    IF feature = {}
    THEN {i \in 1..Len(table) : table[i].userId = user /\ table[i].createdAt >= startDate}
    ELSE {i \in 1..Len(table) : {table[i].feature} = feature}

RECURSIVE SumTokens(_, _)
\* sum(aiUsageTracking.tokensUsed) over a group
SumTokens(table, rows) ==
    IF rows = {} THEN 0
    ELSE LET i == CHOOSE x \in rows : TRUE
         IN  table[i].tokensUsed + SumTokens(table, rows \ {i})

\* select feature, sum(tokensUsed), sum(cost), count(id) ... group by
\* feature: one record per feature that has a row; an aggregate is {n}, or
\* {} for null (cost is not submitted, so its sum is null, which the summary
\* counts as 0)
UsageStats(table, rows) ==
    {[feature       |-> f,
      totalTokens   |-> {SumTokens(table, {i \in rows : table[i].feature = f})},
      totalCost     |-> {},
      totalRequests |-> {Cardinality({i \in rows : table[i].feature = f})}] :
        f \in {table[i].feature : i \in rows}}

RECURSIVE Reduce(_, _)
\* usageStats.reduce((sum, stat) => sum + (Number(stat.field) || 0), 0)
Reduce(stats, field) ==
    IF stats = {} THEN 0
    ELSE LET stat == CHOOSE x \in stats : TRUE
         IN  NumberOrZero(stat[field]) + Reduce(stats \ {stat}, field)

\* loader
loader(caller, period, feature) ==
    /\ IF caller = {}
       THEN response' = [kind |-> "thrown", status |-> 401]
       ELSE LET user      == CHOOSE u \in caller : TRUE
                startDate == StartDate(period, now)
                rows      == StatsRows(aiUsageTracking, user, startDate, feature)
                usageStats == UsageStats(aiUsageTracking, rows)
            IN  response' =
                    [kind |-> "loader", user |-> user, feature |-> feature,
                     usageStats |-> usageStats,
                     summary |-> [totalCost     |-> Reduce(usageStats, "totalCost"),
                                  totalTokens   |-> Reduce(usageStats, "totalTokens"),
                                  totalRequests |-> Reduce(usageStats, "totalRequests"),
                                  startDate     |-> startDate, endDate |-> now]]
    /\ UNCHANGED <<aiUsageTracking, analyticsTables, calls>>
    /\ UNCHANGED <<featureState, now, rev, usageTracking, subscriptionUsage, userSubscriptions,
                   inflight, recorded, aiCalls>>

\* stat.successRate as the screen reads it: the loader's select has no such
\* column, so the property is undefined ({})
SuccessRateOf(stat) == IF "successRate" \in DOMAIN stat THEN {stat.successRate} ELSE {}

\* AnalyticsScreen, the usage statistics card: stat.successRate.toFixed(1)
\* for each entry of usageStats
AnalyticsScreen ==
    /\ response.kind = "loader"
    /\ response' = [kind |-> "screen", usageStats |-> response.usageStats,
                    outcome |-> IF \E stat \in response.usageStats : SuccessRateOf(stat) = {}
                                THEN "TypeError" ELSE "rendered"]
    /\ UNCHANGED <<aiUsageTracking, analyticsTables, calls>>
    /\ UNCHANGED <<featureState, now, rev, usageTracking, subscriptionUsage, userSubscriptions,
                   inflight, recorded, aiCalls>>

\* the day the loader runs (10 February) and the days events were stored
\* (6 January, 8 February)
LoaderDay == MonthStart(1) + 9
EventDays == {MonthStart(0) + 5, MonthStart(1) + 7}

\* rows that accepted track-usage submissions leave in the ledger
StoredEvents ==
    [userId : Users, feature : {"chat", "workflow"}, tokensUsed : {3},
     inputTokens : {1}, outputTokens : {2}, success : {TRUE, FALSE},
     createdAt : EventDays]

InitLoader ==
    /\ now = LoaderDay
    /\ rev = 1
    /\ usageTracking = <<>>
    /\ subscriptionUsage = <<>>
    /\ userSubscriptions = <<>>
    /\ aiUsageTracking \in {<<>>} \cup {<<e>> : e \in StoredEvents}
                            \cup {<<e1, e2>> : e1 \in StoredEvents, e2 \in StoredEvents}
    /\ aiOptimizationSuggestions = [id \in SuggestionIds |-> Unused]
    /\ aiPerformanceMetrics = <<>>
    /\ aiCostAnalysis = <<>>
    /\ inflight = [p \in Procs |-> Idle]
    /\ response = NoResponse
    /\ recorded = [k \in Keys |-> 0]
    /\ calls = 0
    /\ aiCalls = [u \in Users |-> 0]
    /\ InitFeatures

NextLoader ==
    \/ \E caller \in Callers, period \in LoaderPeriods, feature \in LoaderFeatures :
           loader(caller, period, feature)
    \/ AnalyticsScreen

SpecLoader == InitLoader /\ [][NextLoader]_vars

----------------------------------------------------------------------------
(* Every function that records usage, at one instant *)

NextLedger ==
    \/ \E u \in Users, f \in Features, a \in Amounts : trackSubscriptionUsage(u, f, a)
    \/ \E u \in Users, f \in Features, c \in UsageCounts : updateUserUsage(u, f, c)
    \/ \E u \in Users, f \in Features, a \in Amounts :
           \E l \in Limits(f) : trackSubscriptionUsage3(u, f, a, l)
    \/ \E caller \in Callers, form \in Forms : trackUsageAction(caller, form)

SpecLedger == Init /\ [][NextLedger]_vars

----------------------------------------------------------------------------
(* Two requests at once: trackSubscriptionUsage (revision 1) awaits its    *)
(* select, then awaits its update or insert; another request may run in    *)
(* between.                                                                *)

trackSelect(p, u, f, usage) ==
    /\ rev = 1
    /\ inflight[p] = Idle
    /\ calls < MaxCalls
    /\ LET periodStart == PeriodStart(now)
           periodEnd   == PeriodEnd(now)
       IN  \E existingUsage \in UsageSelect(usageTracking, u, f, periodStart, periodEnd) :
               inflight' = [inflight EXCEPT ![p] =
                               [pc |-> "selected", user |-> u, feature |-> f,
                                usage |-> usage, periodStart |-> periodStart,
                                periodEnd |-> periodEnd, existingUsage |-> existingUsage]]
    /\ calls' = calls + 1
    /\ UNCHANGED <<now, usageTracking, subscriptionUsage, response, recorded>>
    /\ UNCHANGED quotaFrame

trackWrite(p) ==
    /\ inflight[p].pc = "selected"
    /\ LET c == inflight[p]
       IN  /\ usageTracking' = TrackWrite(usageTracking, c.existingUsage, c.user, c.feature,
                                          c.usage, c.periodStart, c.periodEnd)
           /\ recorded' = [recorded EXCEPT
                              ![<<c.user, c.feature, MonthOf(c.periodStart)>>] = @ + c.usage]
           /\ response' = [kind |-> "tracked", user |-> c.user, feature |-> c.feature,
                           count |-> IF c.existingUsage = {} THEN c.usage
                                     ELSE (CHOOSE x \in c.existingUsage : TRUE).usage_count
                                          + c.usage]
    /\ inflight' = [inflight EXCEPT ![p] = Idle]
    /\ UNCHANGED <<now, subscriptionUsage, calls>>
    /\ UNCHANGED quotaFrame

InitConc == Init /\ rev = 1

NextConc ==
    \/ Tick
    \/ \E p \in Procs, u \in Users, f \in Features, a \in Amounts : trackSelect(p, u, f, a)
    \/ \E p \in Procs : trackWrite(p)
    \/ \E u \in Users, f \in Features : checkUsageLimits(u, f)

SpecConc == InitConc /\ [][NextConc]_vars

----------------------------------------------------------------------------
(* Subscriptions: upsertUserSubscription awaits getUserSubscription, then  *)
(* awaits its update or its insert; another call may run between the two.  *)
(* cancelUserSubscription is one update. Both revisions of queries.ts      *)
(* carry the same statements. Table user_subscriptions has a primary key   *)
(* on id only, so an insert for a user who has a row is accepted.          *)

PlanIds == {p.id : p \in subscriptionPlans}

subscriptionFrame == <<featureState, now, rev, usageTracking, subscriptionUsage,
                       aiUsageTracking, analyticsTables, recorded, calls, aiCalls>>

\* db.update(userSubscriptions).set({plan_id, status: "active", ...})
\*   .where(eq(user_id, userId))
ActivateSubscriptions(table, u, planId) ==
    [i \in 1..Len(table) |->
        IF table[i].user_id = u
        THEN [table[i] EXCEPT !.plan_id = {planId}, !.status = "active"]
        ELSE table[i]]

\* db.update(userSubscriptions).set({status: "cancelled"}).where(eq(user_id, userId))
CancelSubscriptions(table, u) ==
    [i \in 1..Len(table) |->
        IF table[i].user_id = u
        THEN [table[i] EXCEPT !.status = "cancelled"]
        ELSE table[i]]

\* the branch upsertUserSubscription takes on what its select returned
UpsertWrite(table, existingSubscription, u, planId) ==
    IF existingSubscription # {}
    THEN ActivateSubscriptions(table, u, planId)
    ELSE Append(table, [user_id |-> u, plan_id |-> {planId}, status |-> "active"])

\* const existingSubscription = await getUserSubscription(userId)
upsertSelect(p, u, planId) ==
    /\ inflight[p] = Idle
    /\ \E existingSubscription \in getUserSubscription(u) :
           inflight' = [inflight EXCEPT ![p] =
                           [pc |-> "upsert", user |-> u, planId |-> planId,
                            existingSubscription |-> existingSubscription]]
    /\ UNCHANGED <<userSubscriptions, response>>
    /\ UNCHANGED subscriptionFrame

\* the update or the insert, and the return
upsertWrite(p) ==
    /\ inflight[p].pc = "upsert"
    /\ LET c == inflight[p]
       IN  /\ userSubscriptions' = UpsertWrite(userSubscriptions, c.existingSubscription,
                                               c.user, c.planId)
           /\ response' = [kind |-> "upserted", user |-> c.user, planId |-> c.planId]
    /\ inflight' = [inflight EXCEPT ![p] = Idle]
    /\ UNCHANGED subscriptionFrame

cancelUserSubscription(u) ==
    /\ userSubscriptions' = CancelSubscriptions(userSubscriptions, u)
    /\ response' = [kind |-> "cancelled", user |-> u]
    /\ UNCHANGED inflight
    /\ UNCHANGED subscriptionFrame

\* no user has subscribed yet
InitSubscriptions ==
    /\ now = FirstDay
    /\ rev \in {1, 2}
    /\ usageTracking = <<>>
    /\ subscriptionUsage = <<>>
    /\ userSubscriptions = <<>>
    /\ aiUsageTracking = <<>>
    /\ aiOptimizationSuggestions = [id \in SuggestionIds |-> Unused]
    /\ aiPerformanceMetrics = <<>>
    /\ aiCostAnalysis = <<>>
    /\ inflight = [p \in Procs |-> Idle]
    /\ response = NoResponse
    /\ recorded = [k \in Keys |-> 0]
    /\ calls = 0
    /\ aiCalls = [u \in Users |-> 0]
    /\ InitFeatures

NextSubscriptions ==
    \/ \E p \in Procs, u \in Users, planId \in PlanIds : upsertSelect(p, u, planId)
    \/ \E p \in Procs : upsertWrite(p)
    \/ \E u \in Users : cancelUserSubscription(u)

SpecSubscriptions == InitSubscriptions /\ [][NextSubscriptions]_vars

----------------------------------------------------------------------------
(* The period computation alone, over a whole year *)

YearDays == 0..(MonthStart(Len(DaysInMonth)) - 1)

InitPeriod ==
    /\ now \in YearDays
    /\ rev = 1
    /\ usageTracking = <<>>
    /\ subscriptionUsage = <<>>
    /\ userSubscriptions = <<>>
    /\ aiUsageTracking = <<>>
    /\ aiOptimizationSuggestions = [id \in SuggestionIds |-> Unused]
    /\ aiPerformanceMetrics = <<>>
    /\ aiCostAnalysis = <<>>
    /\ inflight = [p \in Procs |-> Idle]
    /\ response = NoResponse
    /\ recorded = [k \in Keys |-> 0]
    /\ calls = 0
    /\ aiCalls = [u \in Users |-> 0]
    /\ InitFeatures

\* the first three statements of trackSubscriptionUsage, checkUsageLimits
\* and (before its getUserUsage) checkUserLimits
computePeriod ==
    /\ response' = [kind |-> "period", now |-> now,
                    periodStart |-> PeriodStart(now), periodEnd |-> PeriodEnd(now)]
    /\ UNCHANGED <<featureState, now, rev, usageTracking, subscriptionUsage, userSubscriptions,
                   aiUsageTracking, analyticsTables, inflight, recorded, calls, aiCalls>>

NextPeriod == computePeriod

SpecPeriod == InitPeriod /\ [][NextPeriod]_vars

----------------------------------------------------------------------------
(* The AI actions: api/work-tools.tsx and the chat API *)

\* what the provider does with the one request a service method sends:
\* text, a body without text, a non-OK status, or a failed fetch
Outcomes == {"content", "empty", "not_ok", "throws"}

\* requests to the work-tools action: the tool named, whether the tool's
\* schema accepts the form, and (when a request goes out) the provider's part
WorkToolRequests ==
    {[tool |-> "unknown", valid |-> FALSE, outcome |-> "none"]}
    \cup {[tool |-> t, valid |-> FALSE, outcome |-> "none"] : t \in Tools}
    \cup {[tool |-> t, valid |-> TRUE, outcome |-> o] : t \in Tools, o \in Outcomes}

\* requests to the chat action
ChatRequests ==
    {[valid |-> FALSE, outcome |-> "none"]}
    \cup {[valid |-> TRUE, outcome |-> o] : o \in Outcomes}

\* the features checkUsageLimits (revision 1) reports exceeded for the user
ExceededFeatures(u) ==
    {f \in Features :
        \E usage \in UsageSelect(usageTracking, u, f, PeriodStart(now), PeriodEnd(now)) :
            CheckUsageLimitsResult(usage, f).exceeded}

\* WorkAIService.analyzeDocument / composeEmail / processMeetingNotes /
\* reviewCode and AIService.generateResponse: try { fetch; !ok -> throw;
\* content || fallback } catch { error message }
ServiceResult(service, outcome) ==
    CASE outcome = "content" -> [from |-> "provider", service |-> service]
      [] outcome = "empty"   -> [from |-> "fallback", service |-> service]
      [] OTHER               -> [from |-> "error", service |-> service]

\* a service method that sends the request a second time after a failure
ServiceRequestsRetrying(service, outcome) ==
    IF outcome \in {"not_ok", "throws"} THEN 2 ELSE 1

\* the requests one call of a service method sends to the provider: the
\* single fetch at the head of its try block, outside any loop, whatever
\* the provider then answers
ServiceRequests(service, outcome) ==
    IF outcome \in Outcomes THEN 1 ELSE 0

\* what each service method returns from its catch block
ErrorMessage(service) == [from |-> "error", service |-> service]

\* the work-tools action refusing a caller whose usage is reported exceeded
WorkToolsGated(user, tool, valid, outcome) ==
    IF tool \notin Tools
    THEN [status |-> 400, success |-> FALSE, sent |-> FALSE, result |-> {}]
    ELSE IF ~valid
    THEN [status |-> 400, success |-> FALSE, sent |-> FALSE, result |-> {}]
    ELSE IF ExceededFeatures(user) # {}
    THEN [status |-> 429, success |-> FALSE, sent |-> FALSE, result |-> {}]
    ELSE [status |-> 200, success |-> TRUE, sent |-> TRUE,
          result |-> {ServiceResult(tool, outcome)}]

\* work-tools action, after requireAuthentication: what it returns and
\* whether it sent a request to the provider
WorkToolsResponse(user, tool, valid, outcome) ==
    IF tool \notin Tools
    THEN [status |-> 400, success |-> FALSE, sent |-> FALSE, result |-> {}]
    ELSE IF ~valid
    THEN [status |-> 400, success |-> FALSE, sent |-> FALSE, result |-> {}]
    ELSE [status |-> 200, success |-> TRUE, sent |-> TRUE,
          result |-> {ServiceResult(tool, outcome)}]

\* chat action, after requireAuthentication
ChatResponse(user, valid, outcome) ==
    IF ~valid
    THEN [status |-> 400, success |-> FALSE, sent |-> FALSE, result |-> {}]
    ELSE [status |-> 200, success |-> TRUE, sent |-> TRUE,
          result |-> {ServiceResult("chat", outcome)}]

aiFrame == <<featureState, now, rev, usageTracking, subscriptionUsage, userSubscriptions,
             aiUsageTracking, analyticsTables, inflight, recorded, calls>>

workToolsAction(caller, req) ==
    /\ IF caller = {}
       THEN /\ response' = [kind |-> "thrown", status |-> 401]
            /\ UNCHANGED aiCalls
       ELSE LET user == CHOOSE u \in caller : TRUE
                r    == WorkToolsResponse(user, req.tool, req.valid, req.outcome)
            IN  /\ r.sent => aiCalls["u1"] + aiCalls["u2"] < MaxAICalls
                /\ aiCalls' = [aiCalls EXCEPT ![user] =
                                   IF r.sent THEN @ + ServiceRequests(req.tool, req.outcome)
                                   ELSE @]
                /\ response' = [kind |-> "workTools", user |-> user, tool |-> req.tool,
                                valid |-> req.valid, outcome |-> req.outcome,
                                returned |-> r,
                                exceeded |-> ExceededFeatures(user) # {}]
    /\ UNCHANGED aiFrame

chatAction(caller, req) ==
    /\ IF caller = {}
       THEN /\ response' = [kind |-> "thrown", status |-> 401]
            /\ UNCHANGED aiCalls
       ELSE LET user == CHOOSE u \in caller : TRUE
                r    == ChatResponse(user, req.valid, req.outcome)
            IN  /\ r.sent => aiCalls["u1"] + aiCalls["u2"] < MaxAICalls
                /\ aiCalls' = [aiCalls EXCEPT ![user] =
                                   IF r.sent THEN @ + ServiceRequests("chat", req.outcome)
                                   ELSE @]
                /\ response' = [kind |-> "chat", user |-> user, tool |-> "chat",
                                valid |-> req.valid, outcome |-> req.outcome,
                                returned |-> r,
                                exceeded |-> ExceededFeatures(user) # {}]
    /\ UNCHANGED aiFrame

InitAI == Init /\ rev = 1

NextAI ==
    \/ \E u \in Users, f \in Features, a \in Amounts :
           calls < MaxRecordings /\ trackSubscriptionUsage(u, f, a)
    \/ \E caller \in Callers, req \in WorkToolRequests : workToolsAction(caller, req)
    \/ \E caller \in Callers, req \in ChatRequests : chatAction(caller, req)

SpecAI == InitAI /\ [][NextAI]_vars

----------------------------------------------------------------------------
(* Schedule API: api/schedule.tsx, the revisions that parse with zod        *)
(* (revision 3 answers a ZodError with 400, revision 5 answers every error  *)
(* with 500).  JSON fields of a form are absent or well formed.             *)

ScheduleRevs == {3, 5}

\* ids a request can carry: those of rows, and 0 for one that names no row
SubmittedRowIds == 0..MaxRows

\* a response of the schedule action: its status and whether its body is
\* {error: message}
ScheduleAnswer(user, action, status, id) ==
    [kind |-> "schedule", user |-> user, action |-> action,
     input |-> IF action = "unknown" THEN "unknown" ELSE "accepted",
     status |-> status, error |-> status >= 400, id |-> id]

\* the catch block after schema.parse threw a ZodError
ZodErrorStatus(r) == IF r = 3 THEN 400 ELSE 500

\* the response to a submission the schema rejected
Rejected(user, action, id) ==
    [ScheduleAnswer(user, action, ZodErrorStatus(scheduleRev), id)
        EXCEPT !.input = "rejected"]

\* the smallest id no row has had, if there is one
FreeIds(table) ==
    {i \in RowIds : table[i] = Unused /\ \A j \in RowIds : table[j] = Unused => i <= j}

\* .delete(table).where(eq(table.id, id))
DeleteWhereId(table, id) ==
    [i \in RowIds |-> IF i = id /\ table[i].state = "stored" THEN Deleted ELSE table[i]]

TypeEnum == {"meeting", "task", "deadline", "reminder"}

\* submitted fields that decide the parse of an event; the other fields are
\* sent and valid
EventForms == [title : {{}, {""}, {"standup"}, {"review"}}, type : {{"meeting"}, {"bogus"}}]

\* calendarEventSchema.parse does not throw: title is a string of at least
\* one character (formData.get gives null for a missing field), type is one
\* of the enum
CalendarEventValid(form) ==
    /\ form.title # {} /\ form.title # {""}
    /\ form.type \subseteq TypeEnum /\ form.type # {}

\* action, case "create-event"
createEvent(caller, form, outcome) ==
    /\ IF caller = {}
       THEN /\ response' = [kind |-> "thrown", status |-> 401]
            /\ UNCHANGED calendarEvents
       ELSE LET user == CHOOSE u \in caller : TRUE
            IN  IF ~CalendarEventValid(form)
                THEN /\ response' = Rejected(user, "create-event", 0)
                     /\ UNCHANGED calendarEvents
                ELSE IF outcome = "failed"
                THEN /\ response' = ScheduleAnswer(user, "create-event", 500, 0)
                     /\ UNCHANGED calendarEvents
                ELSE /\ FreeIds(calendarEvents) # {}
                     /\ LET id == CHOOSE i \in FreeIds(calendarEvents) : TRUE
                        IN  /\ calendarEvents' =
                                   [calendarEvents EXCEPT ![id] =
                                       [state |-> "stored", userId |-> user,
                                        title |-> CHOOSE t \in form.title : TRUE]]
                            /\ response' = ScheduleAnswer(user, "create-event", 200, id)
    /\ UNCHANGED <<scheduleRev, automatedTasks, workflows, timeTracking, clock>>
    /\ UNCHANGED <<documentState, authState, meetingState, workToolsState>>
    /\ UNCHANGED quotaState

\* action, case "update-event": calendarEventSchema.partial().parse, then
\* .update(calendarEvents).set(data).where(eq(calendarEvents.id, eventId))
updateEvent(caller, eventId, form) ==
    /\ IF caller = {}
       THEN /\ response' = [kind |-> "thrown", status |-> 401]
            /\ UNCHANGED calendarEvents
       ELSE LET user == CHOOSE u \in caller : TRUE
            IN  IF ~CalendarEventValid(form)
                THEN /\ response' = Rejected(user, "update-event", eventId)
                     /\ UNCHANGED calendarEvents
                ELSE /\ calendarEvents' =
                            [i \in RowIds |->
                                IF i = eventId /\ calendarEvents[i].state = "stored"
                                THEN [calendarEvents[i] EXCEPT
                                         !.title = CHOOSE t \in form.title : TRUE]
                                ELSE calendarEvents[i]]
                     /\ response' = ScheduleAnswer(user, "update-event", 200, eventId)
    /\ UNCHANGED <<scheduleRev, automatedTasks, workflows, timeTracking, clock>>
    /\ UNCHANGED <<documentState, authState, meetingState, workToolsState>>
    /\ UNCHANGED quotaState

\* action, case "delete-event"
deleteEvent(caller, eventId) ==
    /\ IF caller = {}
       THEN /\ response' = [kind |-> "thrown", status |-> 401]
            /\ UNCHANGED calendarEvents
       ELSE /\ calendarEvents' = DeleteWhereId(calendarEvents, eventId)
            /\ response' = ScheduleAnswer(CHOOSE u \in caller : TRUE,
                                          "delete-event", 200, eventId)
    /\ UNCHANGED <<scheduleRev, automatedTasks, workflows, timeTracking, clock>>
    /\ UNCHANGED <<documentState, authState, meetingState, workToolsState>>
    /\ UNCHANGED quotaState

\* the other fields of a create-automated-task form are sent and valid
TaskForms == [name : {{}, {"digest"}}]

\* automatedTaskSchema.parse does not throw.  The handler passes
\* formData.get("action") as the task's action field, which is the string
\* "create-automated-task": revision 3 accepts any non-empty string,
\* revision 5 only one of its enum
AutomatedTaskValid(r, form) ==
    /\ form.name # {}
    /\ r = 3

\* action, case "create-automated-task"
createAutomatedTask(caller, form) ==
    /\ IF caller = {}
       THEN /\ response' = [kind |-> "thrown", status |-> 401]
            /\ UNCHANGED automatedTasks
       ELSE LET user == CHOOSE u \in caller : TRUE
            IN  IF ~AutomatedTaskValid(scheduleRev, form)
                THEN /\ response' = Rejected(user, "create-automated-task", 0)
                     /\ UNCHANGED automatedTasks
                ELSE /\ FreeIds(automatedTasks) # {}
                     /\ LET id == CHOOSE i \in FreeIds(automatedTasks) : TRUE
                        IN  /\ automatedTasks' =
                                   [automatedTasks EXCEPT ![id] =
                                       [state |-> "stored", userId |-> user,
                                        isActive |-> TRUE]]
                            /\ response' = ScheduleAnswer(user, "create-automated-task",
                                                          200, id)
    /\ UNCHANGED <<scheduleRev, calendarEvents, workflows, timeTracking, clock>>
    /\ UNCHANGED <<documentState, authState, meetingState, workToolsState>>
    /\ UNCHANGED quotaState

\* action, case "toggle-task":
\* .update(automatedTasks).set({isActive}).where(eq(automatedTasks.id, taskId))
toggleTask(caller, taskId, active) ==
    /\ IF caller = {}
       THEN /\ response' = [kind |-> "thrown", status |-> 401]
            /\ UNCHANGED automatedTasks
       ELSE /\ automatedTasks' =
                   [i \in RowIds |->
                       IF i = taskId /\ automatedTasks[i].state = "stored"
                       THEN [automatedTasks[i] EXCEPT !.isActive = active]
                       ELSE automatedTasks[i]]
            /\ response' = ScheduleAnswer(CHOOSE u \in caller : TRUE,
                                          "toggle-task", 200, taskId)
    /\ UNCHANGED <<scheduleRev, calendarEvents, workflows, timeTracking, clock>>
    /\ UNCHANGED <<documentState, authState, meetingState, workToolsState>>
    /\ UNCHANGED quotaState

\* action, case "delete-task"
deleteTask(caller, taskId) ==
    /\ IF caller = {}
       THEN /\ response' = [kind |-> "thrown", status |-> 401]
            /\ UNCHANGED automatedTasks
       ELSE /\ automatedTasks' = DeleteWhereId(automatedTasks, taskId)
            /\ response' = ScheduleAnswer(CHOOSE u \in caller : TRUE,
                                          "delete-task", 200, taskId)
    /\ UNCHANGED <<scheduleRev, calendarEvents, workflows, timeTracking, clock>>
    /\ UNCHANGED <<documentState, authState, meetingState, workToolsState>>
    /\ UNCHANGED quotaState

\* the other fields of a create-workflow form are sent and valid
WorkflowForms == [name : {{}, {"onboarding"}}]

\* workflowSchema.parse does not throw
WorkflowValid(form) == form.name # {}

\* action, case "create-workflow"
createWorkflow(caller, form) ==
    /\ IF caller = {}
       THEN /\ response' = [kind |-> "thrown", status |-> 401]
            /\ UNCHANGED workflows
       ELSE LET user == CHOOSE u \in caller : TRUE
            IN  IF ~WorkflowValid(form)
                THEN /\ response' = Rejected(user, "create-workflow", 0)
                     /\ UNCHANGED workflows
                ELSE /\ FreeIds(workflows) # {}
                     /\ LET id == CHOOSE i \in FreeIds(workflows) : TRUE
                        IN  /\ workflows' = [workflows EXCEPT ![id] =
                                                [state |-> "stored", userId |-> user]]
                            /\ response' = ScheduleAnswer(user, "create-workflow", 200, id)
    /\ UNCHANGED <<scheduleRev, calendarEvents, automatedTasks, timeTracking, clock>>
    /\ UNCHANGED <<documentState, authState, meetingState, workToolsState>>
    /\ UNCHANGED quotaState

\* action, case "delete-workflow"
deleteWorkflow(caller, workflowId) ==
    /\ IF caller = {}
       THEN /\ response' = [kind |-> "thrown", status |-> 401]
            /\ UNCHANGED workflows
       ELSE /\ workflows' = DeleteWhereId(workflows, workflowId)
            /\ response' = ScheduleAnswer(CHOOSE u \in caller : TRUE,
                                          "delete-workflow", 200, workflowId)
    /\ UNCHANGED <<scheduleRev, calendarEvents, automatedTasks, timeTracking, clock>>
    /\ UNCHANGED <<documentState, authState, meetingState, workToolsState>>
    /\ UNCHANGED quotaState

\* action, default case
unknownScheduleAction(caller) ==
    /\ response' = IF caller = {} THEN [kind |-> "thrown", status |-> 401]
                   ELSE ScheduleAnswer(CHOOSE u \in caller : TRUE, "unknown", 400, 0)
    /\ UNCHANGED scheduleState
    /\ UNCHANGED <<documentState, authState, meetingState, workToolsState>>
    /\ UNCHANGED quotaState

InitSchedule ==
    /\ InitQuotaState
    /\ scheduleRev \in ScheduleRevs
    /\ calendarEvents = [id \in RowIds |-> Unused]
    /\ automatedTasks = [id \in RowIds |-> Unused]
    /\ workflows = [id \in RowIds |-> Unused]
    /\ timeTracking = [id \in RowIds |-> Unused]
    /\ clock = 0
    /\ InitDocumentState /\ InitAuthState /\ InitMeetingState /\ InitWorkToolsState

NextSchedule ==
    \/ \E caller \in Callers, form \in EventForms, outcome \in InsertOutcomes :
           createEvent(caller, form, outcome)
    \/ \E caller \in Callers, id \in SubmittedRowIds, form \in EventForms :
           updateEvent(caller, id, form)
    \/ \E caller \in Callers, id \in SubmittedRowIds : deleteEvent(caller, id)
    \/ \E caller \in Callers, form \in TaskForms : createAutomatedTask(caller, form)
    \/ \E caller \in Callers, id \in SubmittedRowIds, active \in BOOLEAN :
           toggleTask(caller, id, active)
    \/ \E caller \in Callers, id \in SubmittedRowIds : deleteTask(caller, id)
    \/ \E caller \in Callers, form \in WorkflowForms : createWorkflow(caller, form)
    \/ \E caller \in Callers, id \in SubmittedRowIds : deleteWorkflow(caller, id)
    \/ \E caller \in Callers : unknownScheduleAction(caller)

SpecSchedule == InitSchedule /\ [][NextSchedule]_vars

----------------------------------------------------------------------------
(* Schedule API: time tracking, in revisions 3 and 5 (start-time-tracking, *)
(* stop-time-tracking) and in revision 4 (start_time_tracking,             *)
(* stop_time_tracking, whose requireUser is a stub that returns the id     *)
(* "temp-user-id" for every request).  Timestamps are in seconds.          *)

TimeTrackingRevs == {3, 4, 5}

\* the clock moves on
ClockSteps == {30, 60}

pass(d) ==
    /\ clock + d <= MaxClock
    /\ clock' = clock + d
    /\ UNCHANGED <<scheduleRev, calendarEvents, automatedTasks, workflows, timeTracking>>
    /\ UNCHANGED <<response, quotaState, documentState, authState, meetingState,
                   workToolsState>>

\* Math.floor((endTime.getTime() - new Date().getTime()) / 60000), the
\* second new Date() being taken lag milliseconds after endTime
DurationSinceEndTime(lag) == (0 - lag) \div 60000

\* milliseconds that can pass between the two new Date() calls
Lags == {0, 1}

\* EXTRACT(EPOCH FROM (endTime - start_time)): the seconds between them
EpochBetween(startTime, endTime) == endTime - startTime

\* the duration the stop handler of revision r writes
StoppedDuration(r, startTime, endTime, lag) ==
    IF r = 4 THEN EpochBetween(startTime, endTime) ELSE DurationSinceEndTime(lag)

\* timeTrackingSchema.partial().parse does not throw: partial() lets a field
\* be undefined, and formData.get gives null for a missing one
TimeTrackingValid(form) == form.taskName # {} /\ form.startTime # {}

\* action, case "start-time-tracking" (revisions 3 and 5): the parsed
\* startTime replaces new Date() in the inserted values; case
\* "start_time_tracking" (revision 4): startTime is new Date(), duration 0
startTimeTracking(caller, form, outcome) ==
    /\ IF scheduleRev # 4 /\ caller = {}
       THEN /\ response' = [kind |-> "thrown", status |-> 401]
            /\ UNCHANGED timeTracking
       ELSE LET user == IF scheduleRev = 4 THEN "temp-user-id"
                        ELSE CHOOSE u \in caller : TRUE
            IN  IF scheduleRev # 4 /\ ~TimeTrackingValid(form)
                THEN /\ response' = Rejected(user, "start-time-tracking", 0)
                     /\ UNCHANGED timeTracking
                ELSE IF outcome = "failed"
                THEN /\ response' = ScheduleAnswer(user, "start-time-tracking", 500, 0)
                     /\ UNCHANGED timeTracking
                ELSE /\ FreeIds(timeTracking) # {}
                     /\ LET id == CHOOSE i \in FreeIds(timeTracking) : TRUE
                        IN  /\ timeTracking' =
                                   [timeTracking EXCEPT ![id] =
                                       [state |-> "stored", userId |-> user,
                                        startTime |-> IF scheduleRev = 4 THEN clock
                                                      ELSE CHOOSE t \in form.startTime : TRUE,
                                        endTime |-> {},
                                        duration |-> IF scheduleRev = 4 THEN {0} ELSE {}]]
                            /\ response' = ScheduleAnswer(user, "start-time-tracking",
                                                          200, id)
    /\ UNCHANGED <<scheduleRev, calendarEvents, automatedTasks, workflows, clock>>
    /\ UNCHANGED <<documentState, authState, meetingState, workToolsState>>
    /\ UNCHANGED quotaState

\* action, case "stop-time-tracking" / "stop_time_tracking":
\* .update(timeTracking).set({endTime, duration}).where(eq(timeTracking.id, id))
stopTimeTracking(caller, entryId, lag) ==
    /\ IF scheduleRev # 4 /\ caller = {}
       THEN /\ response' = [kind |-> "thrown", status |-> 401]
            /\ UNCHANGED timeTracking
       ELSE /\ timeTracking' =
                   [i \in RowIds |->
                       IF i = entryId /\ timeTracking[i].state = "stored"
                       THEN [timeTracking[i] EXCEPT
                                !.endTime = {clock},
                                !.duration = {StoppedDuration(scheduleRev,
                                                 timeTracking[i].startTime, clock, lag)}]
                       ELSE timeTracking[i]]
            /\ response' = ScheduleAnswer(IF scheduleRev = 4 THEN "temp-user-id"
                                          ELSE CHOOSE u \in caller : TRUE,
                                          "stop-time-tracking", 200, entryId)
    /\ UNCHANGED <<scheduleRev, calendarEvents, automatedTasks, workflows, clock>>
    /\ UNCHANGED <<documentState, authState, meetingState, workToolsState>>
    /\ UNCHANGED quotaState

InitTimeTracking ==
    /\ InitQuotaState
    /\ scheduleRev \in TimeTrackingRevs
    /\ calendarEvents = [id \in RowIds |-> Unused]
    /\ automatedTasks = [id \in RowIds |-> Unused]
    /\ workflows = [id \in RowIds |-> Unused]
    /\ timeTracking = [id \in RowIds |-> Unused]
    /\ clock = 0
    /\ InitDocumentState /\ InitAuthState /\ InitMeetingState /\ InitWorkToolsState

NextTimeTracking ==
    \/ \E d \in ClockSteps : pass(d)
    \/ \E caller \in Callers, name \in {{}, {"review"}}, outcome \in InsertOutcomes :
           \E startTime \in {{}, {0}, {clock}} :
               startTimeTracking(caller, [taskName |-> name, startTime |-> startTime],
                                 outcome)
    \/ \E caller \in Callers, id \in SubmittedRowIds, lag \in Lags :
           stopTimeTracking(caller, id, lag)

SpecTimeTracking == InitTimeTracking /\ [][NextTimeTracking]_vars

----------------------------------------------------------------------------
(* Guards and the meeting API: requireDepartmentManager, api/meeting.tsx *)

\* profiles.role is text, default 'user'
Roles == {"user", "manager", "department_manager"}

\* the profiles table: per user no row, or a row with a role
ProfileTables == [Users -> {{}} \cup {{r} : r \in Roles}]

\* client.from('profiles').select('role').eq('id', user.id).single(): the
\* row, or an error (always an error when there is no row)
ProfileLookups == {"answered", "error"}

\* the guard without its role test: any signed-in user passes
requireDepartmentManagerAnyRole(table, caller, lookup) ==
    IF caller = {} THEN 401 ELSE 0

\* requireDepartmentManager: the status it throws, 0 when it returns
requireDepartmentManager(table, caller, lookup) ==
    IF caller = {} THEN 401
    ELSE LET user    == CHOOSE u \in caller : TRUE
             error   == lookup = "error" \/ table[user] = {}
             profile == IF error THEN {} ELSE table[user]
         IN  IF error \/ profile = {} \/ profile # {"department_manager"}
             THEN 403
             ELSE 0

MeetingActions == {"generate_summary", "process_audio", "other"}

\* requests to the meeting action: the action named and whether the form
\* carries an audio blob
MeetingRequests == [action : MeetingActions, audio : BOOLEAN]

\* generateMeetingSummary, processAudio and the default case
MeetingResult(req) ==
    CASE req.action = "generate_summary" -> [status |-> 200, performed |-> "generate_summary"]
      [] req.action = "process_audio" ->
             [status |-> IF req.audio THEN 200 ELSE 400, performed |-> "process_audio"]
      [] OTHER -> [status |-> 400, performed |-> "none"]

\* action of api/meeting.tsx
meetingAction(caller, lookup, req) ==
    /\ LET guard == requireDepartmentManager(profiles, caller, lookup)
       IN  response' =
               IF guard # 0
               THEN [kind |-> "meetingApi", caller |-> caller, lookup |-> lookup,
                     thrown |-> TRUE, status |-> guard, formRead |-> FALSE,
                     performed |-> "none"]
               ELSE [kind |-> "meetingApi", caller |-> caller, lookup |-> lookup,
                     thrown |-> FALSE, status |-> MeetingResult(req).status,
                     formRead |-> TRUE, performed |-> MeetingResult(req).performed]
    /\ UNCHANGED quotaState
    /\ UNCHANGED featureState

InitMeetingApi ==
    /\ InitQuotaState
    /\ InitScheduleState /\ InitDocumentState /\ InitMeetingState /\ InitWorkToolsState
    /\ profiles \in ProfileTables
    /\ session = {}

NextMeetingApi ==
    \E caller \in Callers, lookup \in ProfileLookups, req \in MeetingRequests :
        meetingAction(caller, lookup, req)

SpecMeetingApi == InitMeetingApi /\ [][NextMeetingApi]_vars

----------------------------------------------------------------------------
(* Sign-in: the action of auth/screens/login.tsx.  session is the auth     *)
(* session the browser holds: the cookies a response's headers carry.      *)

\* a login submission: whose credentials it carries, whether loginSchema
\* accepts it, and what the auth service and the profiles query answer:
\* signInWithPassword (session or error), getUser (the user or none) and
\* the profile lookup
LoginRequests ==
    [user : Users, valid : BOOLEAN, signIn : {"session", "error"},
     getUser : {"user", "none"}, lookup : ProfileLookups]

\* the check after sign-in: if (user) { profile lookup; not a manager ->
\* signOut, 403 }; the status it returns, 0 when it falls through
RoleCheck(table, req) ==
    IF req.getUser = "none" THEN 0
    ELSE LET error   == req.lookup = "error" \/ table[req.user] = {}
             profile == IF error THEN {} ELSE table[req.user]
         IN  IF error \/ profile = {} \/ profile # {"department_manager"}
             THEN 403
             ELSE 0

\* action of login.tsx
loginAction(req) ==
    /\ IF ~req.valid
       THEN /\ response' = [kind |-> "login", req |-> req, status |-> 400,
                            redirect |-> FALSE]
            /\ UNCHANGED session
       ELSE IF req.signIn = "error"
       THEN /\ response' = [kind |-> "login", req |-> req, status |-> 400,
                            redirect |-> FALSE]
            /\ UNCHANGED session
       ELSE IF RoleCheck(profiles, req) # 0
       THEN /\ response' = [kind |-> "login", req |-> req,
                            status |-> RoleCheck(profiles, req), redirect |-> FALSE]
            /\ UNCHANGED session
       ELSE /\ response' = [kind |-> "login", req |-> req, status |-> 302,
                            redirect |-> TRUE]
            /\ session' = {req.user}
    /\ UNCHANGED profiles
    /\ UNCHANGED quotaState
    /\ UNCHANGED <<scheduleState, documentState, meetingState, workToolsState>>

InitLogin == InitMeetingApi

NextLogin == \E req \in LoginRequests : loginAction(req)

SpecLogin == InitLogin /\ [][NextLogin]_vars

----------------------------------------------------------------------------
(* Meeting screen: screens/meeting.tsx, the Meeting component.  A handler   *)
(* runs with the state of the render that created it; an interval callback *)
(* keeps the state of the render in which its setInterval ran.  A timer id *)
(* is the timer's index in intervals; clearInterval marks it not live.      *)

SampleTexts == 6

\* setInterval(callback, delay): the timer gets the next id
SetInterval(timers, timer) == Append(timers, timer)

\* clearInterval(id); an id that is null or names no timer does nothing
ClearInterval(timers, ref) ==
    [i \in DOMAIN timers |->
        IF i \in ref THEN [timers[i] EXCEPT !.live = FALSE] ELSE timers[i]]

\* the recording-time interval: setRecordingTime(prev => prev + 1) each second
RecordingTimer == [kind |-> "timer", live |-> TRUE]

\* the interval of simulateTranscription, its index 0 and the isRecording
\* value its callback closed over
TranscriptionTimer(closure) ==
    [kind |-> "transcription", live |-> TRUE, isRecording |-> closure.isRecording,
     index |-> 0]

\* click on the start button, rendered while isRecording is false:
\* startRecording runs up to its await of getUserMedia
startRecording ==
    /\ ~isRecording
    /\ Len(pendingStarts) < 2
    /\ pendingStarts' = Append(pendingStarts, [isRecording |-> isRecording])
    /\ UNCHANGED <<isRecording, isPaused, recordingTime, transcripts,
                   mediaRecorderRef, timerRef, intervals>>
    /\ UNCHANGED <<response, quotaState, scheduleState, documentState, authState,
                   workToolsState>>

\* getUserMedia settles for the oldest waiting startRecording: the rest of
\* its try block runs, or its catch block
startRecordingResumes(granted) ==
    /\ pendingStarts # <<>>
    /\ pendingStarts' = Tail(pendingStarts)
    /\ IF ~granted
       THEN UNCHANGED <<isRecording, isPaused, mediaRecorderRef, timerRef, intervals>>
       ELSE /\ Len(intervals) + 2 <= MaxIntervals
            /\ mediaRecorderRef' = {"recording"}
            /\ isRecording' = TRUE
            /\ isPaused' = FALSE
            /\ timerRef' = {Len(intervals) + 1}
            /\ intervals' = SetInterval(SetInterval(intervals, RecordingTimer),
                                        TranscriptionTimer(Head(pendingStarts)))
    /\ UNCHANGED <<recordingTime, transcripts>>
    /\ UNCHANGED <<response, quotaState, scheduleState, documentState, authState,
                   workToolsState>>

\* click on the pause / resume button, rendered while isRecording is true
togglePause ==
    /\ isRecording
    /\ IF mediaRecorderRef = {}
       THEN UNCHANGED <<isPaused, mediaRecorderRef, timerRef, intervals>>
       ELSE IF isPaused
       THEN /\ Len(intervals) + 1 <= MaxIntervals
            /\ mediaRecorderRef' = {"recording"}
            /\ isPaused' = FALSE
            /\ timerRef' = {Len(intervals) + 1}
            /\ intervals' = SetInterval(intervals, RecordingTimer)
       ELSE /\ mediaRecorderRef' = {"paused"}
            /\ isPaused' = TRUE
            /\ intervals' = ClearInterval(intervals, timerRef)
            /\ UNCHANGED timerRef
    /\ UNCHANGED <<isRecording, recordingTime, transcripts, pendingStarts>>
    /\ UNCHANGED <<response, quotaState, scheduleState, documentState, authState,
                   workToolsState>>

\* click on the stop button, rendered while isRecording is true
\* (generateSummary sets only the summary and the action items)
stopRecording ==
    /\ isRecording
    /\ IF mediaRecorderRef = {}
       THEN UNCHANGED <<isRecording, isPaused, mediaRecorderRef, intervals>>
       ELSE /\ mediaRecorderRef' = {"inactive"}
            /\ isRecording' = FALSE
            /\ isPaused' = FALSE
            /\ intervals' = ClearInterval(intervals, timerRef)
    /\ UNCHANGED <<timerRef, recordingTime, transcripts, pendingStarts>>
    /\ UNCHANGED <<response, quotaState, scheduleState, documentState, authState,
                   workToolsState>>

\* a live recording-time timer fires
timerTick(id) ==
    /\ intervals[id].live /\ intervals[id].kind = "timer"
    /\ recordingTime < MaxTime
    /\ recordingTime' = recordingTime + 1
    /\ UNCHANGED <<isRecording, isPaused, transcripts, mediaRecorderRef, timerRef,
                   intervals, pendingStarts>>
    /\ UNCHANGED <<response, quotaState, scheduleState, documentState, authState,
                   workToolsState>>

\* the interval of simulateTranscription fires, 3 seconds after the last time
transcriptionTick(id) ==
    /\ intervals[id].live /\ intervals[id].kind = "transcription"
    /\ IF ~intervals[id].isRecording
       THEN /\ intervals' = ClearInterval(intervals, {id})
            /\ UNCHANGED transcripts
       ELSE /\ Len(transcripts) < SampleTexts
            /\ transcripts' = Append(transcripts, intervals[id].index % SampleTexts)
            /\ intervals' = [intervals EXCEPT ![id].index = @ + 1]
    /\ UNCHANGED <<isRecording, isPaused, recordingTime, mediaRecorderRef, timerRef,
                   pendingStarts>>
    /\ UNCHANGED <<response, quotaState, scheduleState, documentState, authState,
                   workToolsState>>

InitMeetingScreen ==
    /\ InitQuotaState
    /\ InitFeatures

NextMeetingScreen ==
    \/ startRecording
    \/ \E granted \in BOOLEAN : startRecordingResumes(granted)
    \/ togglePause
    \/ stopRecording
    \/ \E id \in DOMAIN intervals : timerTick(id)
    \/ \E id \in DOMAIN intervals : transcriptionTick(id)

SpecMeetingScreen == InitMeetingScreen /\ [][NextMeetingScreen]_vars

----------------------------------------------------------------------------
(* Documents: screens/meeting.tsx, action cases upload_document and         *)
(* process_document (both revisions of the file carry the same statements). *)
(* requireUser is the file's own stub and returns {id: "temp-user-id"}; the *)
(* insert's outcome is the database's.                                      *)

ChunkCounts == 0..MaxChunks

\* chunks.map((chunk, index) => ({documentId, chunkIndex: index, ...}))
ChunkRows(documentId, n) ==
    [index \in 1..n |-> [documentId |-> documentId, chunkIndex |-> index - 1]]

DocumentAnswer(action, status, id) ==
    [kind |-> "document", action |-> action, status |-> status, documentId |-> id]

\* case "upload_document": insert with status "processing"
upload_document(outcome) ==
    /\ IF outcome = "failed"
       THEN /\ response' = DocumentAnswer("upload_document", 500, 0)
            /\ UNCHANGED companyDocuments
       ELSE /\ FreeIds(companyDocuments) # {}
            /\ LET id == CHOOSE i \in FreeIds(companyDocuments) : TRUE
               IN  /\ companyDocuments' =
                          [companyDocuments EXCEPT ![id] =
                              [state |-> "stored", userId |-> "temp-user-id",
                               status |-> "processing"]]
                   /\ response' = DocumentAnswer("upload_document", 200, id)
    /\ UNCHANGED documentChunks
    /\ UNCHANGED <<scheduleState, authState, meetingState, workToolsState>>
    /\ UNCHANGED quotaState

\* case "process_document": insert the chunks, then set status "completed"
\* where id = documentId.  The insert throws on an empty list of values and
\* on a document_id no row of company_documents has (the foreign key), and
\* the update is then not reached.
process_document(documentId, n) ==
    /\ Len(documentChunks) + n <= MaxChunkRows
    /\ IF n = 0 \/ documentId \notin RowIds \/ companyDocuments[documentId].state # "stored"
       THEN /\ response' = DocumentAnswer("process_document", 500, documentId)
            /\ UNCHANGED <<companyDocuments, documentChunks>>
       ELSE /\ documentChunks' = documentChunks \o ChunkRows(documentId, n)
            /\ companyDocuments' =
                   [companyDocuments EXCEPT ![documentId].status = "completed"]
            /\ response' = DocumentAnswer("process_document", 200, documentId)
    /\ UNCHANGED <<scheduleState, authState, meetingState, workToolsState>>
    /\ UNCHANGED quotaState

\* no document yet, or one uploaded through api/documents.tsx, whose status
\* is the column's default
InitDocuments ==
    /\ InitQuotaState
    /\ InitScheduleState
    /\ InitAuthState
    /\ InitMeetingState
    /\ InitWorkToolsState
    /\ companyDocuments \in
           [RowIds -> {Unused} \cup
                      {[state |-> "stored", userId |-> u, status |-> "processing"] :
                           u \in Users}]
    /\ documentChunks = <<>>

NextDocuments ==
    \/ \E outcome \in InsertOutcomes : upload_document(outcome)
    \/ \E documentId \in SubmittedRowIds, n \in ChunkCounts : process_document(documentId, n)

SpecDocuments == InitDocuments /\ [][NextDocuments]_vars

----------------------------------------------------------------------------
(* Work-tools screen: screens/work-tools.tsx, the WorkTools component.  One *)
(* fetcher serves the four forms; a form's button is disabled while         *)
(* isLoading[tool] holds.  fetcher.tool is the tool field of the submitted  *)
(* form.                                                                    *)

workToolsFrame == <<scheduleState, documentState, authState, meetingState>>

\* handleSubmit(tool): setIsLoading(prev => ({...prev, [tool]: true})), then
\* fetcher.submit, which replaces a submission still in flight
handleSubmit(tool) ==
    /\ ~isLoading[tool]
    /\ isLoading' = [isLoading EXCEPT ![tool] = TRUE]
    /\ fetcher' = [state |-> "submitting", data |-> fetcher.data, tool |-> {tool}]
    /\ UNCHANGED <<results, response>>
    /\ UNCHANGED workToolsFrame
    /\ UNCHANGED quotaState

\* the action's answer arrives: fetcher.data is set and the fetcher reloads
fetcherLoads(success) ==
    /\ fetcher.state = "submitting"
    /\ fetcher' = [fetcher EXCEPT !.state = "loading",
                                  !.data = {[success |-> success, result |-> fetcher.tool]}]
    /\ UNCHANGED <<isLoading, results, response>>
    /\ UNCHANGED workToolsFrame
    /\ UNCHANGED quotaState

\* the reload is done: the fetcher is idle and keeps its data
fetcherIdle ==
    /\ fetcher.state = "loading"
    /\ fetcher' = [fetcher EXCEPT !.state = "idle"]
    /\ UNCHANGED <<isLoading, results, response>>
    /\ UNCHANGED workToolsFrame
    /\ UNCHANGED quotaState

\* handleResponse(tool).  The component defines it and nothing calls it: no
\* effect, handler or render expression of work-tools.tsx names it, so it is
\* no step of NextWorkToolsScreen.
handleResponse(tool) ==
    /\ fetcher.data # {}
    /\ fetcher.state = "idle"
    /\ LET data == CHOOSE d \in fetcher.data : TRUE
       IN  results' = IF data.success
                      THEN [results EXCEPT ![tool] = data.result]
                      ELSE results
    /\ isLoading' = [isLoading EXCEPT ![tool] = FALSE]
    /\ UNCHANGED <<fetcher, response>>
    /\ UNCHANGED workToolsFrame
    /\ UNCHANGED quotaState

\* the screen as mounted: nothing loading, no result, the fetcher idle
InitWorkToolsScreen ==
    /\ InitQuotaState
    /\ InitFeatures

NextWorkToolsScreen ==
    \/ \E tool \in Tools : handleSubmit(tool)
    \/ \E success \in BOOLEAN : fetcherLoads(success)
    \/ fetcherIdle

\* a submitted request is answered and the fetcher settles
SpecWorkToolsScreen ==
    /\ InitWorkToolsScreen
    /\ [][NextWorkToolsScreen]_vars
    /\ WF_vars(\E success \in BOOLEAN : fetcherLoads(success))
    /\ WF_vars(fetcherIdle)

----------------------------------------------------------------------------
(* Properties *)

Quiescent == \A p \in Procs : inflight[p] = Idle

\* the count a select result carries: 0 when no row matched
CountOf(usage) == IF usage = {} THEN 0 ELSE (CHOOSE x \in usage : TRUE).usage_count

IsCheck == response.kind \in {"checkUsageLimits", "checkUsageLimits3"}

\* C1: once concurrent trackSubscriptionUsage calls for a user and feature
\* have all returned, the period has one usage row for them and the count
\* checkUsageLimits reads from it is the sum of the amounts handed in: no
\* increment is lost and no second row is left for the check to ignore.
C1_NoLostIncrement ==
    Quiescent =>
        \A u \in Users, f \in Features :
            /\ Cardinality(UsageWhere(usageTracking, u, f,
                                      PeriodStart(now), PeriodEnd(now))) <= 1
            /\ \A usage \in UsageSelect(usageTracking, u, f,
                                        PeriodStart(now), PeriodEnd(now)) :
                   CountOf(usage) = recorded[<<u, f, MonthOf(now)>>]

\* old is kept, row for row, at the head of new
IsPrefix(old, new) ==
    /\ Len(old) <= Len(new)
    /\ \A i \in 1..Len(old) : new[i] = old[i]

\* C2: no step of a recording operation updates or deletes a usage row that
\* is already stored; each only appends, so the stored rows stay as written.
C2_AppendOnly ==
    [][ /\ IsPrefix(usageTracking, usageTracking')
        /\ IsPrefix(subscriptionUsage, subscriptionUsage')
        /\ IsPrefix(aiUsageTracking, aiUsageTracking') ]_vars

\* C3: checkUsageLimits reports exceeded exactly when the user's plan has a
\* limit for the feature and the period's recorded usage has reached it; for
\* an unlimited plan it never reports exceeded.
C3_ExceededIffLimitReached ==
    IsCheck =>
        LET limit == PlanLimit(response.user, response.feature)
        IN  response.result.exceeded <=>
                (limit # {} /\ \A l \in limit : response.n >= l)

C5_RemainingIsLimitMinusUsage ==
    (IsCheck /\ PlanLimit(response.user, response.feature) # {}) =>
        \A l \in PlanLimit(response.user, response.feature) :
            response.result.remaining = Max(0, l - response.n)

\* C6: no quota check returns a negative remaining.
C6_RemainingNeverNegative ==
    /\ IsCheck => response.result.remaining >= 0
    /\ response.kind = "checkUserLimits" =>
           \A r \in response.result.remaining : r >= 0

\* C7: the usage a check evaluates is the usage recorded in the current
\* calendar month; what was recorded in an earlier month is not counted.
C7_OnlyCurrentPeriodCounted ==
    IsCheck => response.counted = response.n

\* C8: the computed period is a half-open window that holds the instant it
\* was computed for, and its end is the start of a period (the next one).
C8_PeriodsContiguous ==
    response.kind = "period" =>
        /\ response.periodStart <= response.now
        /\ response.now < response.periodEnd
        /\ PeriodStart(response.periodEnd) = response.periodEnd

\* rows of the usage tables that belong to a user
UsageRows(u) ==
    Cardinality({i \in 1..Len(usageTracking) : usageTracking[i].user_id = u})
    + Cardinality({i \in 1..Len(subscriptionUsage) : subscriptionUsage[i].userId = u})
    + Cardinality({i \in 1..Len(aiUsageTracking) : aiUsageTracking[i].userId = u})

\* C9: a step in which an action sends a request to the AI provider for a
\* user adds exactly one usage row of that user.
C9_OneUsageRowPerAICall ==
    [][ \A u \in Users :
            aiCalls'[u] = aiCalls[u] + 1 => UsageRows(u)' = UsageRows(u) + 1 ]_vars

\* C10: a valid request of an authenticated caller is answered with success
\* after one request to the provider, and the answer is the one the request
\* and the provider's reply determine, whether or not checkUsageLimits
\* reports the caller's usage as exceeded.
C10_QuotaIsAdvisory ==
    (response.kind \in {"workTools", "chat"} /\ response.valid) =>
        /\ response.returned.status = 200
        /\ response.returned.success
        /\ response.returned.sent
        /\ response.returned.result = {ServiceResult(response.tool, response.outcome)}

\* a tool request served for a caller whose usage the check reports exceeded
C10_Witness ==
    /\ response.kind = "workTools"
    /\ response.valid
    /\ response.exceeded
    /\ response.returned.status = 200
    /\ aiCalls[response.user] = 1

\* the user has no subscription row, or the row's plan is not in the plan table
NoPlanFound(u) ==
    \A i \in 1..Len(userSubscriptions) :
        userSubscriptions[i].user_id = u =>
            ~\E p \in subscriptionPlans : {p.id} = userSubscriptions[i].plan_id

\* C11: when the user has no subscription row, or the subscription's plan row
\* is not found, checkUserLimits returns hasLimit true with the Basic limit:
\* 50 for document_analysis, 25 for any other feature.
C11_FallsBackToBasicLimits ==
    ( /\ response.kind \in {"checkUserLimits", "rejected"}
      /\ NoPlanFound(response.user) )
    => /\ response.kind = "checkUserLimits"
       /\ response.result.hasLimit
       /\ response.result.limit =
              {IF response.feature = "document_analysis" THEN 50 ELSE 25}

\* C12: every stored usage event has tokensUsed = inputTokens + outputTokens.
C12_TokensUsedIsSum ==
    \A i \in 1..Len(aiUsageTracking) :
        aiUsageTracking[i].tokensUsed =
            aiUsageTracking[i].inputTokens + aiUsageTracking[i].outputTokens

\* the fields usageTrackingSchema declares without .optional() or .default()
RequiredFields == {"feature", "model", "tokensUsed", "inputTokens", "outputTokens"}

\* the form names a feature outside the enum, or lacks a required field
Unacceptable(form) ==
    \/ \E x \in form.feature : x \notin FeatureEnum
    \/ \E k \in RequiredFields : form[k] = {}

\* C13: a track-usage step answering a submission whose feature is outside
\* the enum, or that lacks a required field, answers 400 and leaves the
\* ledger as it was.
C13_InvalidSubmissionRejected ==
    [][ (response'.kind = "json" /\ Unacceptable(response'.form)) =>
            /\ response'.status = 400
            /\ aiUsageTracking' = aiUsageTracking ]_vars

\* C14: a submission without the success field is stored with success true.
C14_SuccessDefaultsTrue ==
    ( /\ response.kind = "json"
      /\ response.status = 200
      /\ response.form.success = {} )
    => aiUsageTracking[response.usage].success

Stored(row) == row.state = "stored"

\* the row is the old one with the flag set and the date written
AppliedFrom(old, new) ==
    /\ Stored(new)
    /\ new.isApplied
    /\ new.appliedDate # {}
    /\ new.userId = old.userId
    /\ new.category = old.category
    /\ new.implementation = old.implementation

\* C15: in every step a stored suggestion stays as it is or goes from
\* proposed to applied; nothing else changes it or ends its lifecycle.
C15_OnlyProposedToApplied ==
    [][ \A id \in SuggestionIds :
            Stored(aiOptimizationSuggestions[id]) =>
                \/ aiOptimizationSuggestions'[id] = aiOptimizationSuggestions[id]
                \/ /\ ~aiOptimizationSuggestions[id].isApplied
                   /\ AppliedFrom(aiOptimizationSuggestions[id],
                                  aiOptimizationSuggestions'[id]) ]_vars

\* C15, amended: a stored suggestion stays as it is, becomes (or stays)
\* applied in an apply-optimization step, or is removed in a
\* delete-suggestion step; an applied suggestion never becomes proposed
\* again and a removed one never comes back.
C15_AppliedOrDeleted ==
    [][ \A id \in SuggestionIds :
            /\ Stored(aiOptimizationSuggestions[id]) =>
                   \/ aiOptimizationSuggestions'[id] = aiOptimizationSuggestions[id]
                   \/ /\ AppliedFrom(aiOptimizationSuggestions[id],
                                      aiOptimizationSuggestions'[id])
                      /\ response' = Answer("apply-optimization", 200, id)
                   \/ /\ aiOptimizationSuggestions'[id] = Deleted
                      /\ response' = Answer("delete-suggestion", 200, id)
            /\ aiOptimizationSuggestions[id] = Deleted =>
                   aiOptimizationSuggestions'[id] = Deleted ]_vars

\* one suggestion has been applied and another has been deleted
C15_Witness ==
    /\ \E id \in SuggestionIds :
           /\ Stored(aiOptimizationSuggestions[id])
           /\ aiOptimizationSuggestions[id].isApplied
    /\ \E id \in SuggestionIds : aiOptimizationSuggestions[id] = Deleted

\* C16: an apply-optimization step changes nothing but isApplied and
\* appliedDate of the suggestion whose id was given: its other fields, the
\* other suggestions and the usage, metric and cost-analysis rows stay.
C16_ApplyChangesOnlyFlagAndDate ==
    [][ (response'.kind = "analytics" /\ response'.action = "apply-optimization") =>
            /\ \A id \in SuggestionIds :
                   \/ aiOptimizationSuggestions'[id] = aiOptimizationSuggestions[id]
                   \/ /\ id = response'.suggestionId
                      /\ Stored(aiOptimizationSuggestions[id])
                      /\ AppliedFrom(aiOptimizationSuggestions[id],
                                     aiOptimizationSuggestions'[id])
            /\ UNCHANGED <<aiUsageTracking, aiPerformanceMetrics, aiCostAnalysis,
                           usageTracking, subscriptionUsage>> ]_vars

\* a suggestion was just applied while another one is stored and proposed,
\* and a usage, metric or cost-analysis row is stored
C16_Witness ==
    /\ response.kind = "analytics"
    /\ response.action = "apply-optimization"
    /\ \E id \in SuggestionIds :
           /\ id = response.suggestionId
           /\ Stored(aiOptimizationSuggestions[id])
           /\ aiOptimizationSuggestions[id].isApplied
    /\ \E id \in SuggestionIds :
           /\ Stored(aiOptimizationSuggestions[id])
           /\ ~aiOptimizationSuggestions[id].isApplied
    /\ Len(aiUsageTracking) + Len(aiPerformanceMetrics) + Len(aiCostAnalysis) > 0

\* C17: a quota check writes to no table, and the result it returns is the
\* only one the same call can return from the same stored rows at the same
\* instant: a second call with nothing written in between returns it again.
C17_ReadsRepeatable ==
    [][ (response'.kind = "checkUsageLimits" /\ response' # response) =>
            /\ UNCHANGED <<usageTracking, subscriptionUsage, userSubscriptions,
                           aiUsageTracking, analyticsTables>>
            /\ \A usage \in UsageSelect(usageTracking, response'.user, response'.feature,
                                        PeriodStart(now), PeriodEnd(now)) :
                   CheckUsageLimitsResult(usage, response'.feature) = response'.result ]_vars

\* C18: the screen renders the usage statistics without an error, and every
\* entry it shows carries a success rate that is a number from 0 to 100.
C18_SuccessRateDefined ==
    response.kind = "screen" =>
        /\ response.outcome = "rendered"
        /\ \A stat \in response.usageStats :
               \E r \in SuccessRateOf(stat) : r \in 0..100

\* the user's events of the selected period
EventsInPeriod(user, startDate) ==
    {i \in 1..Len(aiUsageTracking) :
        aiUsageTracking[i].userId = user /\ aiUsageTracking[i].createdAt >= startDate}

\* C19: when the user has no usage event in the selected period, the
\* loader's summary is totalCost 0, totalTokens 0 and totalRequests 0.
C19_EmptyPeriodSummaryIsZero ==
    ( /\ response.kind = "loader"
      /\ EventsInPeriod(response.user, response.summary.startDate) = {} )
    => /\ response.summary.totalCost = 0
       /\ response.summary.totalTokens = 0
       /\ response.summary.totalRequests = 0
\* C20: when the provider's reply is a non-OK status or the request throws,
\* the action has sent exactly one request to the provider and answers
\* normally (status 200) with the service method's fixed error message.
C20_FailureAnsweredOnce ==
    [][ (aiCalls' # aiCalls /\ response'.outcome \in {"not_ok", "throws"}) =>
            /\ aiCalls'[response'.user] = aiCalls[response'.user] + 1
            /\ \A u \in Users \ {response'.user} : aiCalls'[u] = aiCalls[u]
            /\ response'.returned.status = 200
            /\ response'.returned.success
            /\ response'.returned.result = {ErrorMessage(response'.tool)} ]_vars

\* a tool request answered with the error message after a non-OK status
C20_Witness ==
    /\ response.kind = "workTools"
    /\ response.valid
    /\ response.outcome = "not_ok"
    /\ response.returned.result = {ErrorMessage(response.tool)}
    /\ aiCalls[response.user] = 1

\* C21: the schedule action answers a submission its schema rejects, or an
\* unknown action name, with a 4xx status and an error message, and leaves
\* every table as it was.
C21_InvalidInputAnswered4xx ==
    [][ (/\ response' # response
         /\ response'.kind = "schedule"
         /\ response'.input \in {"rejected", "unknown"})
        => /\ response'.status \in 400..499
           /\ response'.error
           /\ UNCHANGED <<calendarEvents, automatedTasks, workflows, timeTracking>> ]_vars

\* the caller of the answered meeting request is signed in and has a
\* profile whose role is department_manager, and the lookup answered
IsManagerRequest ==
    /\ response.caller # {}
    /\ response.lookup = "answered"
    /\ \A u \in response.caller : profiles[u] = {"department_manager"}

\* C22: the meeting action performs generate_summary or process_audio only
\* for a signed-in caller whose profile role is department_manager; for any
\* other caller the guard throws 401 (no user) or 403 (lookup error, no
\* profile, another role) before the form is read.
C22_OnlyManagersReachMeetingActions ==
    response.kind = "meetingApi" =>
        /\ response.performed # "none" => IsManagerRequest
        /\ response.formRead => IsManagerRequest
        /\ response.caller = {} => response.thrown /\ response.status = 401
        /\ (response.caller # {} /\ ~IsManagerRequest) =>
               response.thrown /\ response.status = 403

\* a signed-in user without the manager role was refused with 403
C22_Witness ==
    /\ response.kind = "meetingApi"
    /\ response.caller = {"u1"}
    /\ profiles["u1"] = {"user"}
    /\ response.lookup = "answered"
    /\ response.thrown /\ response.status = 403
    /\ ~response.formRead

\* C23: login redirects to the dashboard only after a successful sign-in of
\* a user whose profile role is department_manager; a user without that
\* role gets 403, and the browser never holds a session of such a user.
C23_OnlyManagersKeepSession ==
    /\ \A u \in session : profiles[u] = {"department_manager"}
    /\ response.kind = "login" =>
           /\ response.redirect =>
                  /\ response.req.signIn = "session"
                  /\ profiles[response.req.user] = {"department_manager"}
           /\ (/\ response.req.valid /\ response.req.signIn = "session"
               /\ profiles[response.req.user] # {"department_manager"})
              => response.status = 403 /\ ~response.redirect

\* the rows of a table that a step changed or removed
Modified(old, new) == {i \in RowIds : old[i].state = "stored" /\ new[i] # old[i]}

\* C24: a request that addresses a row by id changes or removes only rows
\* whose userId is the requesting user.
C24_OnlyOwnRowsModified ==
    [][ /\ \A i \in Modified(calendarEvents, calendarEvents') :
               calendarEvents[i].userId = response'.user
        /\ \A i \in Modified(automatedTasks, automatedTasks') :
               automatedTasks[i].userId = response'.user
        /\ \A i \in Modified(workflows, workflows') :
               workflows[i].userId = response'.user ]_vars

\* C25: while a recording is active, every tick of the simulated
\* transcription appends one entry, the canned texts being taken in order;
\* once the recording is stopped a tick appends nothing.
C25_TranscriptionWhileRecording ==
    [][ \A id \in DOMAIN intervals :
            transcriptionTick(id) =>
                IF isRecording
                THEN /\ Len(transcripts') = Len(transcripts) + 1
                     /\ transcripts'[Len(transcripts')] = Len(transcripts) % SampleTexts
                ELSE transcripts' = transcripts ]_vars

\* the recording-time timers that are live
LiveTimers == {id \in DOMAIN intervals : intervals[id].live /\ intervals[id].kind = "timer"}

\* C30: isPaused implies isRecording, at most one recording-time timer is
\* live, and one is live exactly when isRecording holds and isPaused does
\* not.
C30_OneTimerWhileRecording ==
    /\ isPaused => isRecording
    /\ Cardinality(LiveTimers) <= 1
    /\ (LiveTimers # {}) <=> (isRecording /\ ~isPaused)

\* C26: an entry that was started and then stopped has as duration the
\* whole minutes between its startTime and the endTime the stop wrote, and
\* that duration is not negative.
C26_DurationIsElapsedMinutes ==
    \A i \in RowIds :
        (timeTracking[i].state = "stored" /\ timeTracking[i].endTime # {}) =>
            \A endTime \in timeTracking[i].endTime :
                /\ timeTracking[i].duration = {(endTime - timeTracking[i].startTime) \div 60}
                /\ \A duration \in timeTracking[i].duration : duration >= 0

\* C27: after any interleaving of upsertUserSubscription and
\* cancelUserSubscription calls each user has at most one subscription row,
\* and when an upsertUserSubscription has completed that row carries the
\* given plan and status 'active'.
C27_OneActiveRowAfterUpsert ==
    /\ \A u \in Users :
           Cardinality({i \in 1..Len(userSubscriptions) :
                           userSubscriptions[i].user_id = u}) <= 1
    /\ response.kind = "upserted" =>
           \A i \in 1..Len(userSubscriptions) :
               userSubscriptions[i].user_id = response.user =>
                   /\ userSubscriptions[i].plan_id = {response.planId}
                   /\ userSubscriptions[i].status = "active"

\* the chunk indexes stored for a document
ChunkIndexes(chunks, id) ==
    {chunks[i].chunkIndex : i \in {j \in 1..Len(chunks) : chunks[j].documentId = id}}

\* C28: after any sequence of upload_document and process_document calls the
\* chunks stored for a document have unique chunk indexes forming 0..n-1, a
\* document has status 'completed' only if chunks are stored for it, and a
\* document's status moves only from 'processing' to 'completed'.
C28_ChunksIndexedOnce ==
    [][\A id \in RowIds :
          LET rows == {j \in 1..Len(documentChunks') : documentChunks'[j].documentId = id}
          IN  /\ ChunkIndexes(documentChunks', id) = 0..(Cardinality(rows) - 1)
              /\ companyDocuments'[id].state = "stored" =>
                     /\ companyDocuments'[id].status = "completed" => rows # {}
                     /\ companyDocuments[id].state = "stored" =>
                            \/ companyDocuments'[id].status = companyDocuments[id].status
                            \/ /\ companyDocuments[id].status = "processing"
                               /\ companyDocuments'[id].status = "completed"]_vars

\* C29: on the work-tools screen, when the fetcher of a submitted tool
\* request is back to idle with data, isLoading[tool] eventually becomes
\* false, and for a successful response results[tool] then holds the result.
C29_LoadingEnds ==
    \A tool \in Tools :
        (fetcher.state = "idle" /\ fetcher.data # {} /\ fetcher.tool = {tool}
             /\ isLoading[tool])
        ~> (/\ ~isLoading[tool]
            /\ \A data \in fetcher.data : data.success => results[tool] = data.result)

=========================================================================
